---- MODULE Spec2Model ----
(***************************************************************************)
(* Model of the ETL planner: the configuration/history store               *)
(* (storage/repository.py), the Task Runner and Step Executor              *)
(* (core/engine.py), the Recurrence Calculator (scheduler/cron_parser.py), *)
(* the Scheduler loop and its workers (scheduler/scheduler.py,             *)
(* scheduler/worker.py) and the main window's handlers that reach the      *)
(* engine and the store (ui/main_window.py).                               *)
(*                                                                         *)
(* Time is a number of seconds since a midnight; a datetime is that        *)
(* number.  A string is a sequence of one-character strings, so that       *)
(* split(), startswith(), replace(), isdigit() and int() are computed.     *)
(* A task name is its rank in the store's ORDER BY name collation.         *)
(***************************************************************************)
EXTENDS Integers, Sequences, FiniteSets, TLC

VARIABLES
    clock,        \* wall clock, what datetime.now() returns
    tasks,        \* store: table tasks (with its steps), task id -> row
    connections,  \* store: table connections, connection id -> row
    history,      \* store: table execution_history, row id = index
    running,      \* Scheduler._running (threading.Event)
    next_runs,    \* Scheduler.next_runs: task id -> next-due datetime
    sched,        \* the Scheduler thread: position and locals of run()
    runs,         \* every run_task invocation made so far, in start order
    ui,           \* the Qt main thread and the process (main.py)
    cyc,          \* observation of the current polling cycle (not program state)
    sink,         \* the target SQL Server database: its tables and the statements it ran
    loads         \* every call made to the loader so far, in start order

vars == <<clock, tasks, connections, history, running, next_runs, sched, runs, ui, cyc,
          sink, loads>>

----------------------------------------------------------------------------
(* Bounds of the model *)

MaxCycles == 3      \* polling cycles the scheduler may start
MaxRuns == 2        \* run_task invocations in one behaviour
MaxUiOps == 1       \* edits of the user in one behaviour
MaxLoads == 2       \* calls made to the loader in one behaviour
MaxToggles == 2     \* clicks on the enable/disable button in one behaviour
MaxEditorOps == 4   \* clicks on the step buttons of the task editor in one behaviour
MaxSteps == 3       \* steps a task may have in the task editor

(* Program constants *)

check_interval_seconds == 30
SecondsPerMinute == 60
MinutesPerHour == 60

\* Python's None, for a string, a Tabular Value and a row id
None == "None"
NoData == <<>>
NoId == 0

----------------------------------------------------------------------------
(* Python string helpers, on sequences of characters *)

Digits == <<"0", "1", "2", "3", "4", "5", "6", "7", "8", "9">>

isdigit_char(c) == \E i \in 1..10 : Digits[i] = c

DigitValue(c) == (CHOOSE i \in 1..10 : Digits[i] = c) - 1

\* str.isdigit(): non-empty and all characters are digits
isdigit(s) == Len(s) > 0 /\ \A i \in 1..Len(s) : isdigit_char(s[i])

RECURSIVE DecimalValue(_)
DecimalValue(s) ==
    IF Len(s) = 0 THEN 0
    ELSE 10 * DecimalValue(SubSeq(s, 1, Len(s) - 1)) + DigitValue(s[Len(s)])

\* int(s): an optional sign followed by digits; anything else raises ValueError
int(s) ==
    IF isdigit(s) THEN [ok |-> TRUE, val |-> DecimalValue(s)]
    ELSE IF Len(s) > 1 /\ s[1] = "+" /\ isdigit(Tail(s))
        THEN [ok |-> TRUE, val |-> DecimalValue(Tail(s))]
    ELSE IF Len(s) > 1 /\ s[1] = "-" /\ isdigit(Tail(s))
        THEN [ok |-> TRUE, val |-> 0 - DecimalValue(Tail(s))]
    ELSE [ok |-> FALSE, val |-> 0]

startswith(s, p) == Len(s) >= Len(p) /\ SubSeq(s, 1, Len(p)) = p

\* s.replace(old, ""): every non-overlapping occurrence removed, left to right
RECURSIVE remove_all(_, _)
remove_all(s, old) ==
    IF Len(s) = 0 THEN <<>>
    ELSE IF startswith(s, old) THEN remove_all(SubSeq(s, Len(old) + 1, Len(s)), old)
    ELSE <<s[1]>> \o remove_all(Tail(s), old)

\* str.split(): the maximal runs of non-blank characters
RECURSIVE split_from(_, _, _)
split_from(s, i, word) ==
    IF i > Len(s) THEN (IF Len(word) > 0 THEN <<word>> ELSE <<>>)
    ELSE IF s[i] = " "
        THEN (IF Len(word) > 0 THEN <<word>> ELSE <<>>) \o split_from(s, i + 1, <<>>)
    ELSE split_from(s, i + 1, Append(word, s[i]))

split(s) == split_from(s, 1, <<>>)

----------------------------------------------------------------------------
(* datetime helpers *)

minute_of(t) == (t \div SecondsPerMinute) % MinutesPerHour

\* A faulty variant of floor_minute: the seconds are kept
floor_minute_keeps_seconds(t) == t

\* A faulty variant of floor_minute: a started minute is rounded up
floor_minute_rounds_up(t) ==
    t + ((SecondsPerMinute - (t % SecondsPerMinute)) % SecondsPerMinute)

\* t.replace(second=0, microsecond=0)
floor_minute(t) == t - (t % SecondsPerMinute)

\* A faulty variant of replace_minute: the minutes are added to those of t
replace_minute_adds(t, m) == t + m * SecondsPerMinute

\* t.replace(minute=m) for a t whose seconds are zero
replace_minute(t, m) == t - minute_of(t) * SecondsPerMinute + m * SecondsPerMinute

Abs(n) == IF n < 0 THEN 0 - n ELSE n

\* datetime.now().isoformat(): the text written to the history; nothing in the
\* program reads it back, and the model keeps only that it is a timestamp
isoformat(t) == "timestamp"

----------------------------------------------------------------------------
(* scheduler/cron_parser.py *)

Returned(t) == [ok |-> TRUE, time |-> t, exc |-> None]
Raised(e) == [ok |-> FALSE, time |-> 0, exc |-> e]

\* A faulty variant of advance_to_multiple: the first candidate is passed over
RECURSIVE advance_to_multiple_after_first(_, _)
advance_to_multiple_after_first(next_time, interval) ==
    IF minute_of(next_time + SecondsPerMinute) % Abs(interval) = 0
    THEN next_time + SecondsPerMinute
    ELSE advance_to_multiple_after_first(next_time + SecondsPerMinute, interval)

\* while next_time.minute % interval != 0: next_time += timedelta(minutes=1)
RECURSIVE advance_to_multiple(_, _)
advance_to_multiple(next_time, interval) ==
    IF minute_of(next_time) % Abs(interval) = 0 THEN next_time
    ELSE advance_to_multiple(next_time + SecondsPerMinute, interval)

\* A faulty variant of next_run_from_cron: the literal minute is compared with <=
next_run_from_cron_same_minute(cron_expr, now) ==
    LET parts == split(cron_expr) IN
    IF Len(parts) # 5 THEN Raised("ValueError")
    ELSE
    LET minute == parts[1] IN
    IF startswith(minute, <<"*", "/">>) THEN
        LET n == int(remove_all(minute, <<"*", "/">>)) IN
        IF ~n.ok THEN Raised("ValueError")
        ELSE IF n.val = 0 THEN Raised("ZeroDivisionError")
        ELSE Returned(advance_to_multiple(floor_minute(now + SecondsPerMinute), n.val))
    ELSE IF minute = <<"*">> THEN
        Returned(floor_minute(now + SecondsPerMinute))
    ELSE IF isdigit(minute) THEN
        LET m == int(minute).val
            next_time == floor_minute(now) IN
        IF m >= MinutesPerHour THEN Raised("ValueError")
        ELSE IF minute_of(now) <= m THEN Returned(replace_minute(next_time, m))
        ELSE Returned(replace_minute(
                 next_time + MinutesPerHour * SecondsPerMinute, m))
    ELSE Raised("NotImplementedError")

next_run_from_cron(cron_expr, now) ==
    LET parts == split(cron_expr) IN
    IF Len(parts) # 5 THEN Raised("ValueError")
    ELSE
    LET minute == parts[1] IN
    IF startswith(minute, <<"*", "/">>) THEN
        LET n == int(remove_all(minute, <<"*", "/">>)) IN
        IF ~n.ok THEN Raised("ValueError")
        ELSE IF n.val = 0 THEN Raised("ZeroDivisionError")
        ELSE Returned(advance_to_multiple(floor_minute(now + SecondsPerMinute), n.val))
    ELSE IF minute = <<"*">> THEN
        Returned(floor_minute(now + SecondsPerMinute))
    ELSE IF isdigit(minute) THEN
        LET m == int(minute).val
            next_time == floor_minute(now) IN
        IF m >= MinutesPerHour THEN Raised("ValueError")
        ELSE IF minute_of(now) < m THEN Returned(replace_minute(next_time, m))
        ELSE Returned(replace_minute(
                 next_time + MinutesPerHour * SecondsPerMinute, m))
    ELSE Raised("NotImplementedError")

\* The recurrence expressions the model's tasks use
ExprEveryMinute == <<"*", " ", "*", " ", "*", " ", "*", " ", "*">>
ExprMinute1 == <<"1", " ", "*", " ", "*", " ", "*", " ", "*">>
ExprEveryTwo == <<"*", "/", "2", " ", "*", " ", "*", " ", "*", " ", "*">>
ExprInvalid == <<"*", " ", "*", " ", "*", " ", "*">>

Exprs == {ExprEveryMinute, ExprMinute1, ExprEveryTwo, ExprInvalid}

----------------------------------------------------------------------------
(* core/models.py: the steps and tasks of the model *)

ExtractStep(o) ==
    [order |-> o, step_type |-> "extract", connection_id |-> 1,
     config |-> [query |-> "SELECT"]]

LoadStep(o) ==
    [order |-> o, step_type |-> "load", connection_id |-> 1,
     config |-> [table |-> "dest", mode |-> "replace", create_table |-> TRUE]]

TransformStep(o) ==
    [order |-> o, step_type |-> "transform", connection_id |-> NoId,
     config |-> [type |-> "pandas"]]

ScheduledTask(id, name, recurrence, enabled, steps) ==
    [id |-> id, name |-> name, recurrence |-> recurrence, enabled |-> enabled,
     steps |-> steps]

TaskIds == {1, 2}

Step(order, step_type, connection_id, config) ==
    [order |-> order, step_type |-> step_type, connection_id |-> connection_id,
     config |-> config]

\* The step lists of the tasks whose steps go wrong: a transform that comes
\* first, a transform of a kind nobody implements, connections of a kind
\* nobody serves, a connection that is not stored, queries that are missing
StepLists ==
    <<  <<Step(1, "transform", NoId, [type |-> "pandas"])>>,
        <<Step(1, "transform", NoId, [type |-> "sql"])>>,
        <<ExtractStep(1), Step(2, "transform", NoId, [type |-> "sql"])>>,
        <<ExtractStep(1), Step(2, "transform", NoId, [type |-> "python"]),
          LoadStep(3)>>,
        <<Step(1, "extract", 2, [query |-> "SELECT"])>>,
        <<ExtractStep(1),
          Step(2, "load", 2, [table |-> "dest", mode |-> "append",
                              create_table |-> TRUE])>>,
        <<Step(1, "load", 2, [table |-> "dest", mode |-> "append",
                              create_table |-> TRUE])>>,
        <<Step(1, "extract", 1, [query |-> ""])>>,
        <<Step(1, "extract", 1, [query |-> None]), LoadStep(2)>>,
        <<Step(1, "extract", 3, [query |-> "SELECT"])>>  >>

StepsOf(id) ==
    IF id = 1 THEN <<ExtractStep(1), LoadStep(2)>>
    ELSE <<ExtractStep(1), LoadStep(2), TransformStep(3)>>

----------------------------------------------------------------------------
(* storage/repository.py *)

\* sorted(xs, key=lambda x: x.<key>): stable; key is the name of the field
RECURSIVE insert_by(_, _, _)
insert_by(sorted_xs, x, key) ==
    IF Len(sorted_xs) = 0 THEN <<x>>
    ELSE IF sorted_xs[Len(sorted_xs)][key] <= x[key] THEN Append(sorted_xs, x)
    ELSE Append(insert_by(SubSeq(sorted_xs, 1, Len(sorted_xs) - 1), x, key),
                sorted_xs[Len(sorted_xs)])

RECURSIVE sorted(_, _)
sorted(xs, key) ==
    IF Len(xs) = 0 THEN <<>>
    ELSE insert_by(sorted(SubSeq(xs, 1, Len(xs) - 1), key), xs[Len(xs)], key)

RECURSIVE SetToSeq(_)
SetToSeq(S) ==
    IF S = {} THEN <<>>
    ELSE LET x == CHOOSE y \in S : TRUE IN <<x>> \o SetToSeq(S \ {x})

StepOrder == "order"
TaskName == "name"

\* SELECT * FROM steps WHERE task_id = ? ORDER BY step_order ASC
_load_steps_for_task(store_tasks, task_id) ==
    sorted(store_tasks[task_id].steps, StepOrder)

\* SELECT * FROM tasks WHERE enabled = 1 ORDER BY name
list_enabled_tasks(store_tasks) ==
    LET rows == {id \in DOMAIN store_tasks : store_tasks[id].enabled}
        objs == SetToSeq({ScheduledTask(id, store_tasks[id].name,
                              store_tasks[id].recurrence, TRUE,
                              _load_steps_for_task(store_tasks, id)) : id \in rows})
    IN sorted(objs, TaskName)

\* SELECT * FROM tasks ORDER BY name, kept by the main window as self.tasks
list_tasks(store_tasks) ==
    LET objs == SetToSeq({ScheduledTask(id, store_tasks[id].name,
                              store_tasks[id].recurrence, store_tasks[id].enabled,
                              _load_steps_for_task(store_tasks, id))
                          : id \in DOMAIN store_tasks})
    IN sorted(objs, TaskName)

\* UPDATE tasks SET ...; DELETE FROM steps ...; INSERT the steps sorted by order
save_task(store_tasks, task) ==
    [store_tasks EXCEPT ![task.id] =
        ScheduledTask(task.id, task.name, task.recurrence, task.enabled,
                      sorted(task.steps, StepOrder))]

\* A faulty variant of delete_task: the task's history goes with it
delete_task_cascading(store_tasks, h, task_id) ==
    [tasks |-> [id \in DOMAIN store_tasks \ {task_id} |-> store_tasks[id]],
     history |-> SelectSeq(h, LAMBDA rec : rec.task_id # task_id)]

\* DELETE FROM steps WHERE task_id = ?; DELETE FROM tasks WHERE id = ?.  The
\* connection never turns foreign keys on, and execution_history declares no
\* ON DELETE clause: the rows of execution_history stay as they are
delete_task(store_tasks, h, task_id) ==
    [tasks |-> [id \in DOMAIN store_tasks \ {task_id} |-> store_tasks[id]],
     history |-> h]

\* UPDATE connections SET name, type, params WHERE id = ?
save_connection(conns, conn_id, cfg) == [conns EXCEPT ![conn_id] = cfg]

get_connection_by_id(conns, conn_id) ==
    IF conn_id \in DOMAIN conns
    THEN [ok |-> TRUE, conn |-> conns[conn_id], exc |-> None]
    ELSE [ok |-> FALSE, conn |-> [type |-> None], exc |-> "KeyError"]

\* INSERT INTO execution_history (task_id, started_at, status); the new row's id
\* (cur.lastrowid) is its index
log_execution_start(h, task_id, started_at) ==
    Append(h, [task_id |-> task_id, started_at |-> started_at,
               finished_at |-> None, status |-> "running", message |-> None])

\* A faulty variant of log_execution_end: the UPDATE is not issued
log_execution_end_not_issued(h, history_id, finished_at, status, message) == h

\* UPDATE execution_history SET finished_at, status, message WHERE id = ?
log_execution_end(h, history_id, finished_at, status, message) ==
    IF history_id \in DOMAIN h
    THEN [h EXCEPT ![history_id] = [@ EXCEPT !.finished_at = finished_at,
                                              !.status = status,
                                              !.message = message]]
    ELSE h

----------------------------------------------------------------------------
(* core/engine.py: the Step Executor *)

Ok(data) == [ok |-> TRUE, data |-> data, exc |-> None]
Fail(e) == [ok |-> FALSE, data |-> NoData, exc |-> e]

\* What an external capability (driver, transformer) does with one call
Outcomes == {"ok", "fail"}

\* SqlServerExtractor.extract(): a fresh Tabular Value, named after its step
extract(step, ext) ==
    IF step.config.query \in {None, ""} THEN Fail("ValueError: 'query' manquante")
    ELSE IF ext = "ok" THEN Ok(<<step.order>>)
    ELSE Fail("pyodbc.Error")

\* The transformer capability: a new Tabular Value derived from its input
transform(step, data, ext) ==
    IF ext = "ok" THEN Ok(Append(data, step.order)) ELSE Fail("TransformError")

\* SqlServerLoader.load(): returns nothing
load(step, data, ext) ==
    IF data = NoData THEN Fail("AttributeError")
    ELSE IF step.config.table = None THEN Fail("ValueError: 'table' manquante")
    ELSE IF ext = "ok" THEN Ok(NoData)
    ELSE Fail("pyodbc.Error")

\* The connection kinds that have an extractor and a loader
ConnectionKinds == {"sqlserver"}

\* A faulty variant of _run_extract: the SQL Server extractor serves every kind
_run_extract_any_kind(conns, step, ext) ==
    LET c == get_connection_by_id(conns, step.connection_id) IN
    IF ~c.ok THEN Fail(c.exc) ELSE extract(step, ext)

_run_extract(conns, step, ext) ==
    LET c == get_connection_by_id(conns, step.connection_id) IN
    IF ~c.ok THEN Fail(c.exc)
    ELSE IF c.conn.type \in ConnectionKinds THEN extract(step, ext)
    ELSE Fail("NotImplementedError")

\* The transform kinds that have a transformer
TransformKinds == {"pandas", "python"}

\* A faulty variant of _run_transform: the transformer is selected before the
\* input is looked at
_run_transform_selects_first(step, data, ext) ==
    IF step.config.type \notin TransformKinds THEN Fail("NotImplementedError")
    ELSE IF data = NoData THEN Fail("ValueError: data=None")
    ELSE transform(step, data, ext)

_run_transform(step, data, ext) ==
    IF data = NoData THEN Fail("ValueError: data=None")
    ELSE IF step.config.type \in TransformKinds THEN transform(step, data, ext)
    ELSE Fail("NotImplementedError")

_run_load(conns, step, data, ext) ==
    LET c == get_connection_by_id(conns, step.connection_id) IN
    IF ~c.ok THEN Fail(c.exc)
    ELSE IF c.conn.type \in ConnectionKinds THEN load(step, data, ext)
    ELSE Fail("NotImplementedError")

\* A faulty variant of _execute_step: a load step returns what the loader returns
_execute_step_load_result(conns, step, data_in, ext) ==
    IF step.step_type = "extract" THEN _run_extract(conns, step, ext)
    ELSE IF step.step_type = "transform" THEN _run_transform(step, data_in, ext)
    ELSE IF step.step_type = "load" THEN _run_load(conns, step, data_in, ext)
    ELSE Fail("ValueError: Type de step inconnu")

_execute_step(conns, step, data_in, ext) ==
    IF step.step_type = "extract" THEN _run_extract(conns, step, ext)
    ELSE IF step.step_type = "transform" THEN _run_transform(step, data_in, ext)
    ELSE IF step.step_type = "load" THEN
        LET r == _run_load(conns, step, data_in, ext) IN
        IF r.ok THEN Ok(data_in) ELSE r
    ELSE Fail("ValueError: Type de step inconnu")

----------------------------------------------------------------------------
(* core/engine.py: the Task Runner.  A run is one invocation of run_task. *)

Finished == {"returned", "raised"}

\* The frame of run_task(task) when it is entered by `thread` on behalf of `origin`
run_task(task, origin, thread) ==
    [task_id |-> task.id, steps |-> task.steps, origin |-> origin,
     thread |-> thread, pc |-> "start", queue |-> <<>>, idx |-> 1, data |-> NoData,
     history_id |-> NoId, exc |-> None,
     \* observation, not program state: the steps executed, the calls made to
     \* log_execution_start and log_execution_end, the polling cycle of the trigger
     trace |-> <<>>, starts |-> 0, ends |-> 0, cycle |-> 0]

Executed(step, data_in, res) ==
    [order |-> step.order, step_type |-> step.step_type, input |-> data_in,
     output |-> res.data, ok |-> res.ok, exc |-> res.exc]

\* data = self._execute_step(step, data) returned: on to the next step
step_returned(r, step, res) ==
    [r EXCEPT !.data = res.data, !.idx = @ + 1,
              !.trace = Append(@, Executed(step, r.data, res))]

\* A faulty variant of step_raised: the failure is swallowed and the loop goes on
step_raised_swallowed(r, step, res) ==
    [r EXCEPT !.idx = @ + 1,
              !.trace = Append(@, Executed(step, r.data, res))]

\* A faulty variant of step_raised: the run is started over after a failure
step_raised_restarts(r, step, res) ==
    [r EXCEPT !.pc = "start", !.idx = 1, !.data = NoData,
              !.trace = Append(@, Executed(step, r.data, res))]

\* self._execute_step(step, data) raised: control goes to the except clause
step_raised(r, step, res) ==
    [r EXCEPT !.pc = "except", !.exc = res.exc,
              !.trace = Append(@, Executed(step, r.data, res))]

\* A thread executes one call at a time: it is busy while a run_task it entered
\* has not come back
ThreadBusy(thread) ==
    \E i \in DOMAIN runs : runs[i].thread = thread /\ runs[i].pc \notin Finished

Alive == ui.pc # "exited"

\* run_task up to the for loop: the history record is opened, the steps sorted
RunStart(i) ==
    /\ Alive
    /\ runs[i].pc = "start"
    /\ history' = log_execution_start(history, runs[i].task_id, isoformat(clock))
    /\ runs' = [runs EXCEPT ![i] =
                   [@ EXCEPT !.pc = "steps", !.history_id = Len(history'),
                             !.queue = sorted(runs[i].steps, StepOrder),
                             !.starts = @ + 1]]
    /\ UNCHANGED <<clock, tasks, connections, running, next_runs, sched, ui, cyc,
                   sink, loads>>

\* One iteration of the for loop
RunStep(i) ==
    /\ Alive
    /\ runs[i].pc = "steps"
    /\ runs[i].idx <= Len(runs[i].queue)
    /\ \E ext \in Outcomes :
        LET r == runs[i]
            step == r.queue[r.idx]
            res == _execute_step(connections, step, r.data, ext)
        IN runs' = [runs EXCEPT ![i] =
                       IF res.ok THEN step_returned(r, step, res)
                       ELSE step_raised(r, step, res)]
    /\ UNCHANGED <<clock, tasks, connections, history, running, next_runs, sched,
                   ui, cyc,
                   sink, loads>>

\* The for loop is over: log_execution_end(status="success"), return
RunCloseSuccess(i) ==
    /\ Alive
    /\ runs[i].pc = "steps"
    /\ runs[i].idx > Len(runs[i].queue)
    /\ history' = log_execution_end(history, runs[i].history_id,
                                    isoformat(clock), "success", None)
    /\ runs' = [runs EXCEPT ![i] = [@ EXCEPT !.pc = "returned", !.ends = @ + 1]]
    /\ UNCHANGED <<clock, tasks, connections, running, next_runs, sched, ui, cyc,
                   sink, loads>>

\* The except clause: log_execution_end(status="error", message=str(e)), raise
RunCloseError(i) ==
    /\ Alive
    /\ runs[i].pc = "except"
    /\ history' = log_execution_end(history, runs[i].history_id,
                                    isoformat(clock), "error", runs[i].exc)
    /\ runs' = [runs EXCEPT ![i] = [@ EXCEPT !.pc = "raised", !.ends = @ + 1]]
    /\ UNCHANGED <<clock, tasks, connections, running, next_runs, sched, ui, cyc,
                   sink, loads>>

----------------------------------------------------------------------------
(* The Task Runner when a call to the store raises (sqlite3.Error). A call     *)
(* that raises at cur.execute has written nothing; one that raises at commit  *)
(* has left its write on the shared connection, where the next commit of any  *)
(* thread makes it durable: `written` says which.                             *)

\* log_execution_start raises: run_task raises before its try block
RunStartFails(i, written) ==
    /\ Alive
    /\ runs[i].pc = "start"
    /\ history' = IF written
                  THEN log_execution_start(history, runs[i].task_id,
                                           isoformat(clock))
                  ELSE history
    /\ runs' = [runs EXCEPT ![i] = [@ EXCEPT !.pc = "raised",
                                             !.exc = "sqlite3.Error",
                                             !.starts = @ + 1]]
    /\ UNCHANGED <<clock, tasks, connections, running, next_runs, sched, ui, cyc,
                   sink, loads>>

\* log_execution_end(status="success") raises inside the try block: control
\* goes to the except clause
RunCloseSuccessFails(i, written) ==
    /\ Alive
    /\ runs[i].pc = "steps"
    /\ runs[i].idx > Len(runs[i].queue)
    /\ history' = IF written
                  THEN log_execution_end(history, runs[i].history_id,
                                         isoformat(clock), "success", None)
                  ELSE history
    /\ runs' = [runs EXCEPT ![i] = [@ EXCEPT !.pc = "except",
                                             !.exc = "sqlite3.Error",
                                             !.ends = @ + 1]]
    /\ UNCHANGED <<clock, tasks, connections, running, next_runs, sched, ui, cyc,
                   sink, loads>>

\* log_execution_end(status="error") raises inside the except clause: its
\* exception leaves run_task
RunCloseErrorFails(i, written) ==
    /\ Alive
    /\ runs[i].pc = "except"
    /\ history' = IF written
                  THEN log_execution_end(history, runs[i].history_id,
                                         isoformat(clock), "error", runs[i].exc)
                  ELSE history
    /\ runs' = [runs EXCEPT ![i] = [@ EXCEPT !.pc = "raised",
                                             !.exc = "sqlite3.Error",
                                             !.ends = @ + 1]]
    /\ UNCHANGED <<clock, tasks, connections, running, next_runs, sched, ui, cyc,
                   sink, loads>>

----------------------------------------------------------------------------
(* The Task Runner on the connection that all threads share.  Repository     *)
(* opens one sqlite3 connection with check_same_thread=False and uses it     *)
(* from the Qt thread and from every worker without a lock.  The row id a    *)
(* cursor reports is the connection's last inserted row id, read after the   *)
(* INSERT was executed: an INSERT of another thread may come in between.     *)

\* log_execution_start: cur.execute("INSERT INTO execution_history ...")
RunInsert(i) ==
    /\ Alive
    /\ runs[i].pc = "start"
    /\ history' = log_execution_start(history, runs[i].task_id, isoformat(clock))
    /\ runs' = [runs EXCEPT ![i] = [@ EXCEPT !.pc = "inserted", !.starts = @ + 1]]
    /\ UNCHANGED <<clock, tasks, connections, running, next_runs, sched, ui, cyc,
                   sink, loads>>

\* log_execution_start: return cur.lastrowid; then run_task up to the for loop
RunLastRowId(i) ==
    /\ Alive
    /\ runs[i].pc = "inserted"
    /\ runs' = [runs EXCEPT ![i] =
                   [@ EXCEPT !.pc = "steps", !.history_id = Len(history),
                             !.queue = sorted(runs[i].steps, StepOrder)]]
    /\ UNCHANGED <<clock, tasks, connections, history, running, next_runs, sched,
                   ui, cyc,
                   sink, loads>>

----------------------------------------------------------------------------
(* scheduler/scheduler.py and scheduler/worker.py *)

\* What time.sleep(check_interval_seconds) may last beyond the interval
Delays == {0, 30}

\* A faulty variant of _execute_task: the scheduler's thread calls run_task itself
_execute_task_inline(task) == run_task(task, "scheduler", "scheduler")

\* _execute_task: TaskWorker(engine, task).start(); the worker's thread calls
\* engine.run_task(task)
_execute_task(task) == run_task(task, "scheduler", "worker")

\* A faulty variant of check_task: a task is run in the cycle that first observes it
check_task_runs_at_first_sight(task, now, nr) ==
    IF task.id \notin DOMAIN nr THEN "run"
    ELSE IF now >= nr[task.id] THEN "run"
    ELSE "skip"

\* A variant of check_task with a per-task guard: a task with a run in flight is
\* passed over
check_task_unless_in_flight(task, now, nr) ==
    IF task.id \notin DOMAIN nr THEN "seed"
    ELSE IF \E i \in DOMAIN runs :
                runs[i].task_id = task.id /\ runs[i].pc \notin Finished
         THEN "skip"
    ELSE IF now >= nr[task.id] THEN "run"
    ELSE "skip"

\* The body of the for loop of _check_and_run_tasks decides, for one task
check_task(task, now, nr) ==
    IF task.id \notin DOMAIN nr THEN "seed"
    ELSE IF now >= nr[task.id] THEN "run"
    ELSE "skip"

\* A faulty variant of for_task_in_tasks: a triggered task is planned from its
\* due time, so that every missed occurrence is caught up
RECURSIVE for_task_in_tasks_catches_up(_, _, _, _, _)
for_task_in_tasks_catches_up(ts, i, now, acc, start_fails) ==
    IF i > Len(ts) THEN acc
    ELSE
    LET task == ts[i]
        todo == check_task(task, now, acc.next_runs)
        next_time == next_run_from_cron(task.recurrence,
                         IF todo = "run" THEN acc.next_runs[task.id] ELSE now)
    IN
    IF todo = "skip" THEN for_task_in_tasks_catches_up(ts, i + 1, now, acc, start_fails)
    ELSE IF todo = "run" /\ start_fails = i THEN [acc EXCEPT !.raised = "RuntimeError"]
    ELSE
    LET started == IF todo = "run" THEN Append(acc.started, _execute_task(task))
                   ELSE acc.started
    IN
    IF next_time.ok
    THEN for_task_in_tasks_catches_up(ts, i + 1, now,
             [acc EXCEPT !.next_runs = (task.id :> next_time.time) @@ @,
                         !.started = started], start_fails)
    ELSE [acc EXCEPT !.started = started, !.raised = next_time.exc]

\* The for loop of _check_and_run_tasks from its i-th task on. acc holds
\* self.next_runs, the workers started so far and the exception that ended the
\* loop, if any. start_fails is the position of the task whose worker.start()
\* raises (0: none does).
RECURSIVE for_task_in_tasks(_, _, _, _, _)
for_task_in_tasks(ts, i, now, acc, start_fails) ==
    IF i > Len(ts) THEN acc
    ELSE
    LET task == ts[i]
        todo == check_task(task, now, acc.next_runs)
        next_time == next_run_from_cron(task.recurrence, now)
    IN
    IF todo = "skip" THEN for_task_in_tasks(ts, i + 1, now, acc, start_fails)
    ELSE IF todo = "run" /\ start_fails = i THEN [acc EXCEPT !.raised = "RuntimeError"]
    ELSE
    LET started == IF todo = "run" THEN Append(acc.started, _execute_task(task))
                   ELSE acc.started
    IN
    IF next_time.ok
    THEN for_task_in_tasks(ts, i + 1, now,
             [acc EXCEPT !.next_runs = (task.id :> next_time.time) @@ @,
                         !.started = started], start_fails)
    ELSE [acc EXCEPT !.started = started, !.raised = next_time.exc]

\* A faulty variant of _check_and_run_tasks: the due times of the tasks that are
\* no longer enabled are dropped before the loop
_check_and_run_tasks_prunes(store_tasks, now, nr, fetch_fails, start_fails) ==
    LET ts == list_enabled_tasks(store_tasks)
        ids == {ts[k].id : k \in DOMAIN ts}
    IN  for_task_in_tasks(ts, 1, now,
            [next_runs |-> [id \in DOMAIN nr \cap ids |-> nr[id]],
             started |-> <<>>, raised |-> None], start_fails)

\* _check_and_run_tasks(); fetch_fails: list_enabled_tasks() raises
_check_and_run_tasks(store_tasks, now, nr, fetch_fails, start_fails) ==
    IF fetch_fails
    THEN [next_runs |-> nr, started |-> <<>>, raised |-> "sqlite3.Error"]
    ELSE for_task_in_tasks(list_enabled_tasks(store_tasks), 1, now,
             [next_runs |-> nr, started |-> <<>>, raised |-> None], start_fails)

\* A faulty variant of on_cycle_exception: the exception leaves run()
on_cycle_exception_uncaught == "crashed"

\* except Exception in run(): the error is logged and the loop goes on to its sleep
on_cycle_exception == "sleep"

SchedulerStep == Alive /\ ~ThreadBusy("scheduler")

\* A faulty variant of SchedLoopTest: the loop does not look at the stop signal
SchedLoopTest_ignores_stop ==
    /\ SchedulerStep
    /\ sched.pc = "test"
    /\ sched' = [sched EXCEPT !.pc = "check"]
    /\ UNCHANGED <<clock, tasks, connections, history, running, next_runs, runs,
                   ui, cyc,
                   sink, loads>>

\* while self._running.is_set()
SchedLoopTest ==
    /\ SchedulerStep
    /\ sched.pc = "test"
    /\ sched' = [sched EXCEPT !.pc = IF running THEN "check" ELSE "exited"]
    /\ UNCHANGED <<clock, tasks, connections, history, running, next_runs, runs,
                   ui, cyc,
                   sink, loads>>

\* try: self._check_and_run_tasks() except Exception: log
SchedCycle(fetch_fails, start_fails) ==
    /\ SchedulerStep
    /\ sched.pc = "check"
    /\ LET done == _check_and_run_tasks(tasks, clock, next_runs, fetch_fails,
                                        start_fails)
       IN
       /\ Len(runs) + Len(done.started) <= MaxRuns
       /\ (start_fails # 0 \/ fetch_fails) => done.raised # None
       /\ runs' = runs \o [k \in 1..Len(done.started) |->
                              [done.started[k] EXCEPT !.cycle = cyc.n + 1]]
       /\ next_runs' = done.next_runs
       /\ sched' = [sched EXCEPT !.pc = IF done.raised = None THEN "sleep"
                                        ELSE on_cycle_exception]
       /\ cyc' = [n |-> cyc.n + 1, now |-> clock,
                  tasks |-> IF fetch_fails THEN <<>> ELSE list_enabled_tasks(tasks),
                  nr0 |-> next_runs,
                  triggered |-> [k \in 1..Len(done.started) |->
                                    done.started[k].task_id],
                  raised |-> done.raised]
    /\ UNCHANGED <<clock, tasks, connections, history, running, ui,
                   sink, loads>>

\* time.sleep(self.check_interval_seconds)
SchedSleep ==
    /\ SchedulerStep
    /\ sched.pc = "sleep"
    /\ cyc.n < MaxCycles
    /\ \E d \in Delays : clock' = clock + check_interval_seconds + d
    /\ sched' = [sched EXCEPT !.pc = "test"]
    /\ UNCHANGED <<tasks, connections, history, running, next_runs, runs, ui, cyc,
                   sink, loads>>

\* What time.sleep may last beyond the interval on a machine that was
\* suspended or overloaded: trigger times pass while the thread sleeps
LateDelays == {90, 150}

\* time.sleep(self.check_interval_seconds) that lasts minutes
SchedOversleep ==
    /\ SchedulerStep
    /\ sched.pc = "sleep"
    /\ cyc.n < MaxCycles
    /\ \E d \in LateDelays : clock' = clock + check_interval_seconds + d
    /\ sched' = [sched EXCEPT !.pc = "test"]
    /\ UNCHANGED <<tasks, connections, history, running, next_runs, runs, ui, cyc,
                   sink, loads>>

----------------------------------------------------------------------------
(* ui/main_window.py and main.py: the Qt main thread *)

UiStep == Alive /\ ui.pc = "events" /\ ~ThreadBusy("ui")

\* self.tasks[idx]: the main window's copy of the store's row, steps included
selected_task(id) ==
    LET ts == list_tasks(tasks)
    IN ts[CHOOSE k \in 1..Len(ts) : ts[k].id = id]

\* on_run_clicked: self.engine.run_task(task) on the Qt thread
on_run_clicked(id) ==
    /\ UiStep
    /\ Len(runs) < MaxRuns
    /\ runs' = Append(runs, run_task(selected_task(id), "manual", "ui"))
    /\ UNCHANGED <<clock, tasks, connections, history, running, next_runs, sched,
                   ui, cyc,
                   sink, loads>>

\* on_edit_clicked: the dialog's recurrence text replaces the stored one
on_edit_clicked(id, recur) ==
    /\ UiStep
    /\ ui.ops < MaxUiOps
    /\ recur # tasks[id].recurrence
    /\ tasks' = save_task(tasks, [selected_task(id) EXCEPT !.recurrence = recur])
    /\ ui' = [ui EXCEPT !.ops = @ + 1]
    /\ UNCHANGED <<clock, connections, history, running, next_runs, sched, runs,
                   cyc,
                   sink, loads>>

\* on_delete_clicked, answered Yes: the selected task is deleted from the store
on_delete_clicked(id) ==
    /\ UiStep
    /\ ui.ops < MaxUiOps
    /\ LET db == delete_task(tasks, history, selected_task(id).id)
       IN tasks' = db.tasks /\ history' = db.history
    /\ ui' = [ui EXCEPT !.ops = @ + 1]
    /\ UNCHANGED <<clock, connections, running, next_runs, sched, runs, cyc,
                   sink, loads>>

\* on_toggle_clicked: the selected task is saved with its enabled flag inverted
on_toggle_clicked(id) ==
    /\ UiStep
    /\ ui.ops < MaxToggles
    /\ LET task == selected_task(id)
       IN tasks' = save_task(tasks, [task EXCEPT !.enabled = ~task.enabled])
    /\ ui' = [ui EXCEPT !.ops = @ + 1]
    /\ UNCHANGED <<clock, connections, history, running, next_runs, sched, runs,
                   cyc, sink, loads>>

\* ConnectionManagerDialog.on_edit_clicked, accepted: the selected connection
\* is saved with the type chosen in the dialog
ConnectionManager_on_edit_clicked(conn_id, ctype) ==
    /\ UiStep
    /\ ui.ops < MaxUiOps
    /\ ctype # connections[conn_id].type
    /\ connections' = save_connection(connections, conn_id, [type |-> ctype])
    /\ ui' = [ui EXCEPT !.ops = @ + 1]
    /\ UNCHANGED <<clock, tasks, history, running, next_runs, sched, runs, cyc,
                   sink, loads>>

\* main(): app.exec() has returned; scheduler.stop()
stop ==
    /\ UiStep
    /\ running' = FALSE
    /\ ui' = [ui EXCEPT !.pc = "stopped"]
    /\ UNCHANGED <<clock, tasks, connections, history, next_runs, sched, runs, cyc,
                   sink, loads>>

\* main(): sys.exit(exit_code); the daemon threads end with the process
exit ==
    /\ ui.pc = "stopped"
    /\ ui' = [ui EXCEPT !.pc = "exited"]
    /\ UNCHANGED <<clock, tasks, connections, history, running, next_runs, sched,
                   runs, cyc,
                   sink, loads>>

----------------------------------------------------------------------------
(* core/loaders/sqlserver.py: SqlServerLoader *)

\* dict.get(key, default)
dict_get(d, key, default) == IF key \in DOMAIN d THEN d[key] ELSE default

\* The value of an absent or empty dict: falsy
NoDict == <<>>

\* A pandas DataFrame: its columns with their dtypes, and its rows
Column(name, dtype) == [name |-> name, dtype |-> dtype]
DataFrame(columns, rows) == [columns |-> columns, rows |-> rows]

\* list(df.columns)
columns_of(df) == {df.columns[k].name : k \in 1..Len(df.columns)}

\* The cells pandas returns for a numeric catalog column
NaN == [kind |-> "nan", val |-> 0]
PyNone == [kind |-> "none", val |-> 0]
Num(n) == [kind |-> "num", val |-> n]

\* The other cells a DataFrame may hold: pd.NaT, a pd.Timestamp and a
\* datetime.datetime (seconds since 1900-01-01 00:00:00, and microseconds), a
\* numpy scalar (np.int64(n), np.float64("nan")) and a str
NaT == [kind |-> "NaT", val |-> 0]
Timestamp(seconds, microsecond) ==
    [kind |-> "Timestamp", val |-> seconds, microsecond |-> microsecond]
datetime(seconds, microsecond) ==
    [kind |-> "datetime", val |-> seconds, microsecond |-> microsecond]
np_int64(n) == [kind |-> "np.int64", val |-> n]
np_nan == [kind |-> "np.float64", val |-> 0, nan |-> TRUE]
Str(text) == [kind |-> "str", text |-> text]

\* pd.isna(cell)
isna(cell) == cell.kind \in {"nan", "none", "NaT"} \/ cell = np_nan

\* isinstance(cell, np.generic)
is_np_generic(cell) == cell.kind \in {"np.int64", "np.float64"}

\* int(cell): NaN raises ValueError, None raises TypeError
int_cell(cell) ==
    IF cell.kind = "num" THEN [ok |-> TRUE, val |-> cell.val, exc |-> None]
    ELSE IF cell.kind = "nan" THEN [ok |-> FALSE, val |-> 0, exc |-> "ValueError"]
    ELSE [ok |-> FALSE, val |-> 0, exc |-> "TypeError"]

\* cell or default: None and 0 are falsy, NaN is truthy
or_default(cell, default) ==
    IF cell.kind = "none" \/ (cell.kind = "num" /\ cell.val = 0) THEN Num(default)
    ELSE cell

----------------------------------------------------------------------------
(* core/utils.py *)

\* sanitize_value: NaT -> datetime(1900, 1, 1); a Timestamp -> its datetime
\* without microseconds; NaN / None -> None; a numpy scalar -> x.item()
sanitize_value(x) ==
    IF x.kind = "NaT" THEN datetime(0, 0)
    ELSE IF x.kind = "Timestamp" THEN datetime(x.val, 0)
    ELSE IF isna(x) THEN PyNone
    ELSE IF is_np_generic(x) THEN Num(x.val)
    ELSE x

\* What applymap makes of a column of results (pandas: lib.map_infer converts
\* the results with maybe_convert_objects): a column holding nothing but plain
\* numbers and None, with at least one number, becomes a float column again in
\* which None is NaN; any other column is kept as it is
maybe_convert_objects(column) ==
    IF /\ \A r \in DOMAIN column : column[r].kind \in {"num", "none"}
       /\ \E r \in DOMAIN column : column[r].kind = "num"
    THEN [r \in DOMAIN column |-> IF column[r].kind = "none" THEN NaN ELSE column[r]]
    ELSE column

\* df.applymap(sanitize_value): sanitize_value on every cell, column by column
sanitize_df_for_sql(df) ==
    LET column(c) == maybe_convert_objects(
                        [r \in DOMAIN df.rows |-> sanitize_value(df.rows[r][c])])
    IN  [df EXCEPT !.rows = [r \in DOMAIN df.rows |->
                                [c \in DOMAIN df.rows[r] |-> column(c)[r]]]]

----------------------------------------------------------------------------
(* core/loaders/sqlserver.py: SqlServerLoader, continued *)

\* One row of INFORMATION_SCHEMA.COLUMNS
MetaRow(name, type, length, prec, scale, nullable) ==
    [COLUMN_NAME |-> name, DATA_TYPE |-> type, CHARACTER_MAXIMUM_LENGTH |-> length,
     NUMERIC_PRECISION |-> prec, NUMERIC_SCALE |-> scale, IS_NULLABLE |-> nullable]

Dbo == <<"d", "b", "o">>

\* "." in table
HasDot(table) == \E i \in 1..Len(table) : table[i] = "."

FirstDot(table) ==
    CHOOSE i \in 1..Len(table) : table[i] = "." /\ \A j \in 1..(i - 1) : table[j] # "."

\* _split_table_name: "dbo.Clients" -> ("dbo", "Clients"), split at the first "."
_split_table_name(table) ==
    IF HasDot(table)
    THEN <<SubSeq(table, 1, FirstDot(table) - 1),
           SubSeq(table, FirstDot(table) + 1, Len(table))>>
    ELSE <<Dbo, table>>

\* The target database: its tables by (schema, name) and the statements
\* executed against it, in order
Database(tables, log) == [tables |-> tables, log |-> log]

EmptyDatabase == Database(<<>>, <<>>)

Table(columns, rows) == [columns |-> columns, rows |-> rows]

\* A faulty variant of table_exists: the catalog is never consulted
table_exists_never(db, target_table) == FALSE

\* table_exists: SELECT 1 FROM INFORMATION_SCHEMA.TABLES WHERE TABLE_SCHEMA = ?
\* AND TABLE_NAME = ?
table_exists(db, target_table) == _split_table_name(target_table) \in DOMAIN db.tables

\* The CREATE TABLE statement
CreateTable(schema, table, column_defs) ==
    [op |-> "create", schema |-> schema, table |-> table, columns |-> column_defs]

\* The body of the loop over schema_df.iterrows(): "[col] data_type nullable"
column_def(row) ==
    LET col == row.COLUMN_NAME
        data_type == row.DATA_TYPE
        nullable == IF row.IS_NULLABLE = "YES" THEN "NULL" ELSE "NOT NULL"
        length == row.CHARACTER_MAXIMUM_LENGTH
        prec == int_cell(or_default(row.NUMERIC_PRECISION, 18))
        scale == int_cell(or_default(row.NUMERIC_SCALE, 0))
        def(t) == [ok |-> TRUE, exc |-> None,
                   def |-> [name |-> col, sql |-> t \o " " \o nullable]]
        raise(e) == [ok |-> FALSE, exc |-> e, def |-> [name |-> col, sql |-> ""]]
    IN  IF data_type \in {"varchar", "nvarchar", "char", "nchar"}
        THEN IF isna(length) THEN def(data_type)
             ELSE IF length.val = 0 - 1 THEN def(data_type \o "(MAX)")
             ELSE def(data_type \o "(" \o ToString(length.val) \o ")")
        ELSE IF data_type \in {"decimal", "numeric"}
        THEN IF ~prec.ok THEN raise(prec.exc)
             ELSE IF ~scale.ok THEN raise(scale.exc)
             ELSE def(data_type \o "(" \o ToString(prec.val) \o ","
                                \o ToString(scale.val) \o ")")
        ELSE def(data_type)

\* for _, row in schema_df.iterrows(): column_defs.append(...); the first row
\* that raises ends the loop
RECURSIVE column_defs(_)
column_defs(rows) ==
    IF Len(rows) = 0 THEN [ok |-> TRUE, exc |-> None, defs |-> <<>>]
    ELSE LET d == column_def(Head(rows))
             rest == column_defs(Tail(rows))
         IN IF ~d.ok THEN [ok |-> FALSE, exc |-> d.exc, defs |-> <<>>]
            ELSE IF ~rest.ok THEN rest
            ELSE [ok |-> TRUE, exc |-> None, defs |-> <<d.def>> \o rest.defs]

\* What the source database answers to the catalog query
SourceConnectError == [kind |-> "connect_error", rows |-> <<>>]
SourceQueryError == [kind |-> "query_error", rows |-> <<>>]
SourceRows(rows) == [kind |-> "rows", rows |-> rows]

\* A faulty variant of isin_columns: every row of the metadata is kept
isin_columns_keeps_all(schema_df, df) == schema_df

\* schema_df[schema_df["COLUMN_NAME"].isin(selected_cols)]
isin_columns(schema_df, df) ==
    SelectSeq(schema_df, LAMBDA row : row.COLUMN_NAME \in columns_of(df))

\* _generate_create_table_sql, the try block: the statement it returns, the
\* exception it raises, or neither when the source has no metadata
_generate_from_source(df, schema, table, src) ==
    LET returns(sql) == [kind |-> "return", sql |-> sql, exc |-> None]
        raises(e) == [kind |-> "raise", sql |-> CreateTable(schema, table, <<>>), exc |-> e]
        selected == isin_columns(src.rows, df)
        defs == column_defs(selected)
    IN  IF src.kind = "connect_error" THEN raises("pyodbc.Error")
        ELSE IF src.kind = "query_error" THEN raises("DatabaseError")
        ELSE IF Len(src.rows) = 0
        THEN [kind |-> "none", sql |-> CreateTable(schema, table, <<>>), exc |-> None]
        ELSE IF Len(selected) = 0 THEN raises("ValueError")
        ELSE IF ~defs.ok THEN raises(defs.exc)
        ELSE returns(CreateTable(schema, table, defs.defs))

\* type_mapping.get(str(dtype), "NVARCHAR(MAX)")
type_mapping(dtype) ==
    CASE dtype \in {"int64", "Int64"} -> "INT"
      [] dtype = "float64" -> "FLOAT"
      [] dtype = "bool" -> "BIT"
      [] dtype = "datetime64[ns]" -> "SMALLDATETIME"
      [] OTHER -> "NVARCHAR(MAX)"

\* _generate_create_table_sql, the fallback: one column per column of df
_generate_fallback(df, schema, table) ==
    CreateTable(schema, table,
                [k \in 1..Len(df.columns) |->
                    [name |-> df.columns[k].name,
                     sql |-> type_mapping(df.columns[k].dtype)]])

\* if source_conn_params and source_table
source_configured(source_conn_params, source_table) ==
    DOMAIN source_conn_params # {} /\ Len(source_table) > 0

\* A faulty variant of _generate_create_table_sql: the exception of the try
\* block is not caught
_generate_create_table_sql_uncaught(df, schema, table, source_conn_params, source_table, src) ==
    LET r == _generate_from_source(df, schema, table, src)
    IN  IF source_configured(source_conn_params, source_table) /\ r.kind = "return"
        THEN [ok |-> TRUE, sql |-> r.sql, exc |-> None]
        ELSE IF source_configured(source_conn_params, source_table) /\ r.kind = "raise"
        THEN [ok |-> FALSE, sql |-> r.sql, exc |-> r.exc]
        ELSE [ok |-> TRUE, sql |-> _generate_fallback(df, schema, table), exc |-> None]

\* _generate_create_table_sql: from the source table's metadata when a source
\* is configured and the try block returns, from the dtypes of df otherwise
_generate_create_table_sql(df, schema, table, source_conn_params, source_table, src) ==
    LET r == _generate_from_source(df, schema, table, src)
    IN  IF source_configured(source_conn_params, source_table) /\ r.kind = "return"
        THEN [ok |-> TRUE, sql |-> r.sql, exc |-> None]
        ELSE [ok |-> TRUE, sql |-> _generate_fallback(df, schema, table), exc |-> None]

\* A call of ensure_table_exists(df, target_table) on a loader built with
\* config: its position and locals, and what it has issued (tables0 and creates
\* observe the call, they are not program state)
ensure_table_exists(df, config, target_table, db) ==
    [fn |-> "ensure_table_exists", df |-> df, config |-> config,
     target_table |-> target_table, pc |-> "table_exists",
     create_sql |-> [op |-> "none"], src |-> [kind |-> "none", rows |-> <<>>],
     exc |-> None, creates |-> 0, tables0 |-> db.tables, ops |-> <<>>]

\* str.lower() of a configured mode
lower(mode) ==
    CASE mode \in {"REPLACE", "Replace"} -> "replace"
      [] mode \in {"APPEND", "Append"} -> "append"
      [] OTHER -> mode

\* A faulty variant of load(): the create_table flag is not looked at
SqlServerLoader_load_always_creates(df, config, db) ==
    [fn |-> "load", df0 |-> df,
     df |-> IF df = NoData THEN df ELSE sanitize_df_for_sql(df),
     config |-> config, target_table |-> dict_get(config, "table", <<>>),
     mode |-> lower(dict_get(config, "mode", "append")),
     pc |-> IF df = NoData \/ "table" \notin DOMAIN config THEN "raised"
            ELSE "table_exists",
     create_sql |-> [op |-> "none"], src |-> [kind |-> "none", rows |-> <<>>],
     exc |-> IF df = NoData THEN "AttributeError"
             ELSE IF "table" \notin DOMAIN config THEN "ValueError" ELSE None,
     creates |-> 0, tables0 |-> db.tables, ops |-> <<>>]

\* A call of load(df) on a loader built with config, up to the branch on
\* auto_create: df sanitized, the configuration read, the missing table
\* refused. df0 is the argument; tables0, creates and ops (the statements the
\* call has sent to the target) observe the call, they are not program state
SqlServerLoader_load(df, config, db) ==
    LET table_name == dict_get(config, "table", <<>>)
        mode == lower(dict_get(config, "mode", "append"))
        auto_create == dict_get(config, "create_table", TRUE)
        frame(pc, exc) ==
            [fn |-> "load", df0 |-> df,
             df |-> IF df = NoData THEN df ELSE sanitize_df_for_sql(df),
             config |-> config, target_table |-> table_name, mode |-> mode,
             pc |-> pc, create_sql |-> [op |-> "none"],
             src |-> [kind |-> "none", rows |-> <<>>], exc |-> exc,
             creates |-> 0, tables0 |-> db.tables, ops |-> <<>>]
    IN  IF df = NoData THEN frame("raised", "AttributeError")
        ELSE IF "table" \notin DOMAIN config THEN frame("raised", "ValueError")
        ELSE IF auto_create THEN frame("table_exists", None)
        ELSE frame("check_exists", None)

\* A faulty variant of after_exists: replace mode goes straight to the insert
after_exists_skips_purge(f) ==
    IF f.fn = "ensure_table_exists" THEN "returned" ELSE "insert"

\* Where a call goes once the destination is known to exist: back to the
\* caller of ensure_table_exists or, within load(), on to the purge of replace
\* mode or to the insert
after_exists(f) ==
    IF f.fn = "ensure_table_exists" THEN "returned"
    ELSE IF f.mode = "replace" THEN "delete"
    ELSE "insert"

LoadFinished(i) == loads[i].pc \in {"returned", "raised"}

\* What the loader is called with. "t" and "dbo.t" name one destination; a
\* source is configured in the second, third and fourth call, and the empty
\* source_table of the last one disables it
SourceParams == [host |-> "src"]

IdName ==
    DataFrame(<<Column("id", "int64"), Column("name", "object")>>,
              <<<<np_int64(1), Str("a")>>, <<np_int64(2), PyNone>>>>)

AmountSeenKind ==
    DataFrame(<<Column("amount", "float64"), Column("seen", "datetime64[ns]"),
                Column("kind", "category")>>,
              <<<<NaN, NaT, Str("c")>>>>)

Calls ==
    {[df |-> IdName, target_table |-> <<"t">>, config |-> [mode |-> "append"]],
     [df |-> IdName, target_table |-> <<"d", "b", "o", ".", "t">>,
      config |-> [mode |-> "append", source_connection_params |-> SourceParams]],
     [df |-> AmountSeenKind, target_table |-> <<"t">>,
      config |-> [mode |-> "append", source_connection_params |-> SourceParams,
                  source_table |-> <<"s", ".", "c">>]],
     [df |-> IdName, target_table |-> <<"s", ".", "t">>,
      config |-> [mode |-> "append", source_connection_params |-> SourceParams]],
     [df |-> AmountSeenKind, target_table |-> <<"s", ".", "t">>,
      config |-> [mode |-> "append", source_connection_params |-> SourceParams,
                  source_table |-> <<>>]]}

\* What the source database may answer
Sources ==
    {SourceConnectError, SourceQueryError, SourceRows(<<>>),
     SourceRows(<<MetaRow("id", "int", NaN, Num(10), Num(0), "NO"),
                  MetaRow("name", "varchar", Num(50), NaN, NaN, "YES")>>),
     SourceRows(<<MetaRow("name", "nvarchar", Num(0 - 1), NaN, NaN, "YES"),
                  MetaRow("code", "char", NaN, NaN, NaN, "NO")>>),
     SourceRows(<<MetaRow("amount", "decimal", NaN, PyNone, Num(0), "YES")>>),
     SourceRows(<<MetaRow("amount", "decimal", NaN, NaN, Num(2), "YES")>>)}

\* A caller calls ensure_table_exists; calls follow one another
EnsureCall(df, config, target_table) ==
    /\ Len(loads) < MaxLoads
    /\ \A i \in DOMAIN loads : LoadFinished(i)
    /\ loads' = Append(loads, ensure_table_exists(df, config, target_table, sink))
    /\ UNCHANGED <<clock, tasks, connections, history, running, next_runs, sched,
                   runs, ui, cyc, sink>>

\* if self.table_exists(target_table): return; the connection may fail
EnsureTableExists(i, connect_fails) ==
    /\ i \in DOMAIN loads
    /\ loads[i].pc = "table_exists"
    /\ IF connect_fails
       THEN /\ loads' = [loads EXCEPT ![i].pc = "raised", ![i].exc = "pyodbc.Error"]
            /\ sink' = sink
       ELSE /\ loads' = [loads EXCEPT
                      ![i].pc = IF table_exists(sink, loads[i].target_table)
                                THEN after_exists(loads[i]) ELSE "generate",
                      ![i].ops = Append(@, "table_exists")]
            /\ sink' = [sink EXCEPT !.log =
                            Append(@, [op |-> "table_exists",
                                       table |-> loads[i].target_table])]
    /\ UNCHANGED <<clock, tasks, connections, history, running, next_runs, sched,
                   runs, ui, cyc>>

\* create_sql = self._generate_create_table_sql(...); src is the source
\* database's answer, asked for only when a source is configured
EnsureGenerate(i, src) ==
    /\ i \in DOMAIN loads
    /\ loads[i].pc = "generate"
    /\ LET f == loads[i]
           name == _split_table_name(f.target_table)
           source_conn_params == dict_get(f.config, "source_connection_params", NoDict)
           source_table == dict_get(f.config, "source_table", f.target_table)
           r == _generate_create_table_sql(f.df, name[1], name[2], source_conn_params,
                                           source_table, src)
           asked == source_configured(source_conn_params, source_table)
       IN  /\ asked \/ src = SourceRows(<<>>)
           /\ loads' = [loads EXCEPT ![i] =
                  IF r.ok
                  THEN [f EXCEPT !.pc = "create", !.create_sql = r.sql,
                                 !.src = IF asked THEN src ELSE @]
                  ELSE [f EXCEPT !.pc = "raised", !.exc = r.exc,
                                 !.src = IF asked THEN src ELSE @]]
    /\ UNCHANGED <<clock, tasks, connections, history, running, next_runs, sched,
                   runs, ui, cyc, sink>>

\* with self._connect_target() as conn: cur.execute(create_sql); conn.commit().
\* The connection may fail; the server refuses the statement when the table
\* exists by now, and may refuse it for a reason of its own (failure)
EnsureCreate(i, failure) ==
    /\ i \in DOMAIN loads
    /\ loads[i].pc = "create"
    /\ LET f == loads[i]
           sql == f.create_sql
           name == <<sql.schema, sql.table>>
           refused == failure = "execute" \/ name \in DOMAIN sink.tables
       IN  IF failure = "connect"
           THEN /\ loads' = [loads EXCEPT ![i].pc = "raised", ![i].exc = "pyodbc.Error"]
                /\ sink' = sink
           ELSE /\ loads' = [loads EXCEPT
                      ![i].pc = IF refused THEN "raised" ELSE after_exists(f),
                      ![i].exc = IF refused THEN "ProgrammingError" ELSE None,
                      ![i].creates = @ + 1,
                      ![i].ops = Append(@, "create")]
                /\ sink' = [sink EXCEPT
                      !.log = Append(@, sql),
                      !.tables = IF refused THEN @
                                 ELSE (name :> Table(sql.columns, <<>>)) @@ @]
    /\ UNCHANGED <<clock, tasks, connections, history, running, next_runs, sched,
                   runs, ui, cyc>>

\* What load() is called with: a value and the configuration of its step
LoadCalls ==
    {[df |-> IdName, config |-> [table |-> <<"t">>, mode |-> "REPLACE"]],
     [df |-> IdName, config |-> [table |-> <<"t">>, mode |-> "append"]],
     [df |-> IdName,
      config |-> [table |-> <<"d", "b", "o", ".", "t">>, create_table |-> FALSE]],
     [df |-> AmountSeenKind,
      config |-> [table |-> <<"s", ".", "t">>, mode |-> "replace",
                  source_connection_params |-> SourceParams]],
     [df |-> IdName, config |-> [mode |-> "append"]],
     [df |-> NoData, config |-> [table |-> <<"t">>, mode |-> "replace"]]}

\* A thread calls load(df)
LoadCall(df, config) ==
    /\ Len(loads) < MaxLoads
    /\ loads' = Append(loads, SqlServerLoader_load(df, config, sink))
    /\ UNCHANGED <<clock, tasks, connections, history, running, next_runs, sched,
                   runs, ui, cyc, sink>>

\* auto_create is off: if not self.table_exists(table_name): raise RuntimeError
LoadCheckExists(i, connect_fails) ==
    /\ i \in DOMAIN loads
    /\ loads[i].pc = "check_exists"
    /\ IF connect_fails
       THEN /\ loads' = [loads EXCEPT ![i].pc = "raised", ![i].exc = "pyodbc.Error"]
            /\ sink' = sink
       ELSE /\ loads' = [loads EXCEPT ![i] =
                  IF table_exists(sink, loads[i].target_table)
                  THEN [loads[i] EXCEPT !.pc = after_exists(loads[i]),
                                        !.ops = Append(@, "table_exists")]
                  ELSE [loads[i] EXCEPT !.pc = "raised", !.exc = "RuntimeError",
                                        !.ops = Append(@, "table_exists")]]
            /\ sink' = [sink EXCEPT !.log =
                            Append(@, [op |-> "table_exists",
                                       table |-> loads[i].target_table])]
    /\ UNCHANGED <<clock, tasks, connections, history, running, next_runs, sched,
                   runs, ui, cyc>>

\* The names of the columns of a table of the target
table_columns(t) == {t.columns[k].name : k \in 1..Len(t.columns)}

\* Mode replace: DELETE FROM [schema].[table], committed when the with block
\* is left. The connection may fail and the server may refuse the statement
LoadDelete(i, failure) ==
    /\ i \in DOMAIN loads
    /\ loads[i].pc = "delete"
    /\ LET f == loads[i]
           name == _split_table_name(f.target_table)
           refused == failure = "execute" \/ name \notin DOMAIN sink.tables
       IN  IF failure = "connect"
           THEN /\ loads' = [loads EXCEPT ![i].pc = "raised", ![i].exc = "pyodbc.Error"]
                /\ sink' = sink
           ELSE /\ loads' = [loads EXCEPT
                      ![i].pc = IF refused THEN "raised" ELSE "insert",
                      ![i].exc = IF refused THEN "ProgrammingError" ELSE None,
                      ![i].ops = Append(@, "delete")]
                /\ sink' = [sink EXCEPT
                      !.log = Append(@, [op |-> "delete", schema |-> name[1],
                                         table |-> name[2]]),
                      !.tables = IF refused THEN @
                                 ELSE [@ EXCEPT ![name].rows = <<>>]]
    /\ UNCHANGED <<clock, tasks, connections, history, running, next_runs, sched,
                   runs, ui, cyc>>

\* One INSERT per row of df in one transaction, committed after the last row.
\* The connection may fail; the server refuses the statement that names a
\* column the table does not have, and may refuse a row (failure): nothing of
\* the batch is kept then
LoadInsert(i, failure) ==
    /\ i \in DOMAIN loads
    /\ loads[i].pc = "insert"
    /\ LET f == loads[i]
           name == _split_table_name(f.target_table)
           issued == Len(f.df.rows) > 0
           refused == issued /\ (\/ failure = "execute"
                                 \/ name \notin DOMAIN sink.tables
                                 \/ ~(columns_of(f.df) \subseteq
                                        table_columns(sink.tables[name])))
       IN  IF failure = "connect"
           THEN /\ loads' = [loads EXCEPT ![i].pc = "raised", ![i].exc = "pyodbc.Error"]
                /\ sink' = sink
           ELSE /\ loads' = [loads EXCEPT
                      ![i].pc = IF refused THEN "raised" ELSE "returned",
                      ![i].exc = IF refused THEN "ProgrammingError" ELSE None,
                      ![i].ops = IF issued THEN Append(@, "insert") ELSE @]
                /\ sink' = [sink EXCEPT
                      !.log = IF issued
                              THEN Append(@, [op |-> "insert", schema |-> name[1],
                                              table |-> name[2],
                                              columns |-> f.df.columns])
                              ELSE @,
                      !.tables = IF refused \/ ~issued THEN @
                                 ELSE [@ EXCEPT ![name].rows = @ \o f.df.rows]]
    /\ UNCHANGED <<clock, tasks, connections, history, running, next_runs, sched,
                   runs, ui, cyc>>

\* The cells a value may hold
Cells ==
    {NaT, NaN, np_nan, PyNone, Timestamp(86400, 250000), np_int64(7), Num(7),
     Str(""), datetime(86400, 250000)}

\* A caller sanitizes a value of one column and two rows
Sanitize(x, y) ==
    /\ Len(loads) < MaxLoads
    /\ LET df == DataFrame(<<Column("a", "object")>>, <<<<x>>, <<y>>>>)
       IN  loads' = Append(loads, [fn |-> "sanitize_df_for_sql", df0 |-> df,
                                   df |-> sanitize_df_for_sql(df), pc |-> "returned"])
    /\ UNCHANGED <<clock, tasks, connections, history, running, next_runs, sched,
                   runs, ui, cyc, sink>>

----------------------------------------------------------------------------
(* The system *)

\* The states the application is started in: the time of day and the stored
\* tasks. Task 1 sorts before task 2.
Scenarios ==
    {[clock |-> 3600,
      tasks |-> (1 :> ScheduledTask(1, 1, ExprEveryTwo, TRUE, StepsOf(1)))
             @@ (2 :> ScheduledTask(2, 2, ExprMinute1, TRUE, StepsOf(2)))],
     [clock |-> 3610,
      tasks |-> (1 :> ScheduledTask(1, 1, ExprInvalid, TRUE, StepsOf(1)))
             @@ (2 :> ScheduledTask(2, 2, ExprEveryMinute, TRUE, StepsOf(2)))],
     [clock |-> 3610,
      tasks |-> (1 :> ScheduledTask(1, 1, ExprEveryMinute, TRUE, StepsOf(1)))
             @@ (2 :> ScheduledTask(2, 2, ExprMinute1, FALSE, StepsOf(2)))]}

Init ==
    /\ \E s \in Scenarios : clock = s.clock /\ tasks = s.tasks
    /\ connections = (1 :> [type |-> "sqlserver"]) @@ (2 :> [type |-> "csv"])
    /\ history = <<>>
    /\ running = TRUE
    /\ next_runs = <<>>
    /\ sched = [pc |-> "test"]
    /\ runs = <<>>
    /\ ui = [pc |-> "events", ops |-> 0]
    /\ cyc = [n |-> 0, now |-> 0, tasks |-> <<>>, nr0 |-> <<>>,
              triggered |-> <<>>, raised |-> None]
    /\ sink = EmptyDatabase
    /\ loads = <<>>

\* The Task Runner, on whichever thread entered it
Engine ==
    \/ \E i \in DOMAIN runs : RunStart(i)
    \/ \E i \in DOMAIN runs : RunStep(i)
    \/ \E i \in DOMAIN runs : RunCloseSuccess(i)
    \/ \E i \in DOMAIN runs : RunCloseError(i)

\* The Scheduler thread
Scheduler ==
    \/ SchedLoopTest
    \/ SchedCycle(FALSE, 0)
    \/ SchedSleep

Next ==
    \/ Engine
    \/ Scheduler
    \/ \E id \in DOMAIN tasks : on_run_clicked(id)

Spec == Init /\ [][Next]_vars

\* The system with a user who edits tasks
NextEdit ==
    \/ Next
    \/ \E id \in DOMAIN tasks, recur \in Exprs : on_edit_clicked(id, recur)

SpecEdit == Init /\ [][NextEdit]_vars

\* The system with a user who edits and deletes tasks
NextDelete ==
    \/ NextEdit
    \/ \E id \in DOMAIN tasks : on_delete_clicked(id)

SpecDelete == Init /\ [][NextDelete]_vars

\* The scheduler with a user who enables, disables and deletes tasks
NextToggle ==
    \/ Scheduler
    \/ \E id \in DOMAIN tasks : on_toggle_clicked(id)
    \/ \E id \in DOMAIN tasks : on_delete_clicked(id)

SpecToggle == Init /\ [][NextToggle]_vars

\* The system with a user who edits connections
NextConnEdit ==
    \/ Next
    \/ \E conn_id \in DOMAIN connections, ctype \in {"sqlserver", "csv"} :
            ConnectionManager_on_edit_clicked(conn_id, ctype)

SpecConnEdit == Init /\ [][NextConnEdit]_vars

\* The system until the application is closed
NextStop ==
    \/ Next
    \/ stop
    \/ exit

SpecStop == Init /\ [][NextStop]_vars

\* The system on a store whose history calls may raise
NextStoreFail ==
    \/ Next
    \/ \E i \in DOMAIN runs, written \in BOOLEAN : RunStartFails(i, written)
    \/ \E i \in DOMAIN runs, written \in BOOLEAN : RunCloseSuccessFails(i, written)
    \/ \E i \in DOMAIN runs, written \in BOOLEAN : RunCloseErrorFails(i, written)

SpecStoreFail == Init /\ [][NextStoreFail]_vars

\* The system with the interleavings of the threads inside log_execution_start
NextSharedConn ==
    \/ Next
    \/ \E i \in DOMAIN runs : RunInsert(i)
    \/ \E i \in DOMAIN runs : RunLastRowId(i)

SpecSharedConn == Init /\ [][NextSharedConn]_vars

\* The scheduler with one stored task, for the recurrence expressions and the
\* times of day below: every call of next_run_from_cron it makes
OtherFields == <<" ", "*", " ", "*", " ", "*", " ", "*">>

MinuteFields ==
    {<<"*">>, <<"0">>, <<"5">>, <<"0", "7">>, <<"3", "0">>, <<"5", "9">>,
     <<"6", "0">>, <<"9", "9">>, <<"1", "-", "5">>, <<"a">>, <<"-", "5">>,
     <<"*", "/", "1">>, <<"*", "/", "2">>, <<"*", "/", "7">>,
     <<"*", "/", "1", "5">>, <<"*", "/", "3", "0">>, <<"*", "/", "5", "9">>,
     <<"*", "/", "0">>, <<"*", "/", "x">>, <<"*", "/">>, <<"*", "/", "-", "5">>,
     <<"*", "/", "*", "/", "5">>}

CronExprs ==
    {m \o OtherFields : m \in MinuteFields}
    \cup {<<>>, ExprInvalid, ExprEveryMinute \o <<" ", "*">>,
          <<" ", "*", "/", "1", "5", " ">> \o OtherFields,
          <<"1", "5", " ", "3", " ", "1", " ", "1", " ", "0">>,
          <<"1", "5">> \o OtherFields,
          <<"*", " ", "3", " ", "1", " ", "1", " ", "0">>,
          <<"*", "/", "7", " ", "2", "3", " ", "*", " ", "1", "2", " ", "6">>}

\* 00:00:00, 00:00:59, 10:07:00, 10:07:30, 10:14:59, 10:15:00, 10:59:59,
\* 23:58:00, 23:59:30
CronNows == {0, 59, 36420, 36450, 36899, 36900, 39599, 86280, 86370}

InitCron ==
    /\ clock \in CronNows
    /\ \E e \in CronExprs : tasks = (1 :> ScheduledTask(1, 1, e, TRUE, StepsOf(1)))
    /\ connections = (1 :> [type |-> "sqlserver"]) @@ (2 :> [type |-> "csv"])
    /\ history = <<>>
    /\ running = TRUE
    /\ next_runs = <<>>
    /\ sched = [pc |-> "test"]
    /\ runs = <<>>
    /\ ui = [pc |-> "events", ops |-> 0]
    /\ cyc = [n |-> 0, now |-> 0, tasks |-> <<>>, nr0 |-> <<>>,
              triggered |-> <<>>, raised |-> None]
    /\ sink = EmptyDatabase
    /\ loads = <<>>

SpecCron == InitCron /\ [][Scheduler]_vars

\* The same scheduler on a machine where a sleep may last minutes
NextCronLate ==
    \/ Scheduler
    \/ SchedOversleep

SpecCronLate == InitCron /\ [][NextCronLate]_vars

\* The Schema Reconciler called on its own, against a target database in
\* which the destination dbo.t exists or not
ExistingTable ==
    Table(<<[name |-> "id", sql |-> "INT"], [name |-> "name", sql |-> "NVARCHAR(MAX)"]>>,
          <<<<Num(9), Str("old")>>>>)

Sinks == {EmptyDatabase, Database((<<Dbo, <<"t">>>> :> ExistingTable), <<>>)}

InitEnsure ==
    /\ clock = 0
    /\ tasks = <<>>
    /\ connections = (1 :> [type |-> "sqlserver"]) @@ (2 :> [type |-> "csv"])
    /\ history = <<>>
    /\ running = TRUE
    /\ next_runs = <<>>
    /\ sched = [pc |-> "test"]
    /\ runs = <<>>
    /\ ui = [pc |-> "events", ops |-> 0]
    /\ cyc = [n |-> 0, now |-> 0, tasks |-> <<>>, nr0 |-> <<>>,
              triggered |-> <<>>, raised |-> None]
    /\ sink \in Sinks
    /\ loads = <<>>

NextEnsure ==
    \/ \E c \in Calls : EnsureCall(c.df, c.config, c.target_table)
    \/ \E i \in DOMAIN loads, connect_fails \in BOOLEAN : EnsureTableExists(i, connect_fails)
    \/ \E i \in DOMAIN loads, src \in Sources : EnsureGenerate(i, src)
    \/ \E i \in DOMAIN loads, failure \in {"none", "connect", "execute"} :
            EnsureCreate(i, failure)

SpecEnsure == InitEnsure /\ [][NextEnsure]_vars

\* load() called on its own by one thread, one call after the other
Failures == {"none", "connect", "execute"}

LoaderSteps ==
    \/ \E i \in DOMAIN loads, connect_fails \in BOOLEAN : EnsureTableExists(i, connect_fails)
    \/ \E i \in DOMAIN loads, src \in Sources : EnsureGenerate(i, src)
    \/ \E i \in DOMAIN loads, failure \in Failures : EnsureCreate(i, failure)
    \/ \E i \in DOMAIN loads, connect_fails \in BOOLEAN : LoadCheckExists(i, connect_fails)
    \/ \E i \in DOMAIN loads, failure \in Failures : LoadDelete(i, failure)
    \/ \E i \in DOMAIN loads, failure \in Failures : LoadInsert(i, failure)

NextLoad ==
    \/ (\A i \in DOMAIN loads : LoadFinished(i))
            /\ \E c \in LoadCalls : LoadCall(c.df, c.config)
    \/ LoaderSteps

SpecLoad == InitEnsure /\ [][NextLoad]_vars

\* load() called by threads that do not wait for one another (the workers of
\* the scheduler, the Qt thread), against a target whose connections and
\* statements do not fail of themselves
NextLoadOverlap ==
    \/ \E c \in LoadCalls : LoadCall(c.df, c.config)
    \/ \E i \in DOMAIN loads : EnsureTableExists(i, FALSE)
    \/ \E i \in DOMAIN loads, src \in Sources : EnsureGenerate(i, src)
    \/ \E i \in DOMAIN loads : EnsureCreate(i, "none")
    \/ \E i \in DOMAIN loads : LoadCheckExists(i, FALSE)
    \/ \E i \in DOMAIN loads : LoadDelete(i, "none")
    \/ \E i \in DOMAIN loads : LoadInsert(i, "none")

SpecLoadOverlap == InitEnsure /\ [][NextLoadOverlap]_vars

\* Two tasks that extract and then replace the content of one destination; the
\* second does not create it
ReplaceSteps(id) ==
    <<ExtractStep(1),
      Step(2, "load", 1,
           IF id = 1 THEN [table |-> <<"t">>, mode |-> "replace"]
           ELSE [table |-> <<"d", "b", "o", ".", "t">>, mode |-> "replace",
                 create_table |-> FALSE])>>

\* A task that loads before anything was extracted
LoadOnlySteps ==
    <<Step(1, "load", 1, [table |-> <<"t">>, mode |-> "replace"]),
      Step(2, "load", 1, [table |-> <<"t">>, mode |-> "append"])>>

\* The frame that stands for the Tabular Value an extract has returned
DataFrameOf(data) == IF data = NoData THEN NoData ELSE IdName

\* One iteration of the for loop on a step that is not a load
RunStepOther(i) ==
    /\ runs[i].pc = "steps"
    /\ runs[i].idx <= Len(runs[i].queue)
    /\ runs[i].queue[runs[i].idx].step_type # "load"
    /\ RunStep(i)

\* One iteration of the for loop on a load step, up to loader.load(data): the
\* call is made by the run's thread, which waits for it
RunLoadCall(i) ==
    /\ Alive
    /\ runs[i].pc = "steps"
    /\ runs[i].idx <= Len(runs[i].queue)
    /\ LET r == runs[i]
           step == r.queue[r.idx]
           c == get_connection_by_id(connections, step.connection_id)
       IN  /\ step.step_type = "load"
           /\ c.ok /\ c.conn.type \in ConnectionKinds
           /\ loads' = Append(loads,
                  [run |-> i] @@ SqlServerLoader_load(DataFrameOf(r.data),
                                                      step.config, sink))
    /\ runs' = [runs EXCEPT ![i].pc = "load"]
    /\ UNCHANGED <<clock, tasks, connections, history, running, next_runs, sched,
                   ui, cyc, sink>>

\* loader.load(data) has returned or raised: the iteration ends as it does
RunLoadReturn(i) ==
    /\ Alive
    /\ runs[i].pc = "load"
    /\ \E k \in DOMAIN loads :
          /\ loads[k].run = i
          /\ LoadFinished(k)
          /\ LET r == [runs[i] EXCEPT !.pc = "steps"]
                 step == r.queue[r.idx]
             IN  runs' = [runs EXCEPT ![i] =
                     IF loads[k].pc = "returned"
                     THEN step_returned(r, step, Ok(r.data))
                     ELSE step_raised(r, step, Fail(loads[k].exc))]
    /\ UNCHANGED <<clock, tasks, connections, history, running, next_runs, sched,
                   ui, cyc, sink, loads>>

\* The system with the loader in place of its outcome: the scheduler triggers
\* both tasks, each on a worker of its own
InitRunLoad ==
    /\ clock = 3610
    /\ \E steps \in {ReplaceSteps(2), LoadOnlySteps} :
          tasks = [id \in TaskIds |->
                      ScheduledTask(id, id, ExprEveryMinute, TRUE,
                                    IF id = 1 THEN ReplaceSteps(1) ELSE steps)]
    /\ connections = (1 :> [type |-> "sqlserver"]) @@ (2 :> [type |-> "csv"])
    /\ history = <<>>
    /\ running = TRUE
    /\ next_runs = <<>>
    /\ sched = [pc |-> "test"]
    /\ runs = <<>>
    /\ ui = [pc |-> "events", ops |-> 0]
    /\ cyc = [n |-> 0, now |-> 0, tasks |-> <<>>, nr0 |-> <<>>,
              triggered |-> <<>>, raised |-> None]
    /\ sink \in Sinks
    /\ loads = <<>>

NextRunLoad ==
    \/ Scheduler
    \/ \E i \in DOMAIN runs : RunStart(i)
    \/ \E i \in DOMAIN runs : RunStepOther(i)
    \/ \E i \in DOMAIN runs : RunLoadCall(i)
    \/ LoaderSteps
    \/ \E i \in DOMAIN runs : RunLoadReturn(i)
    \/ \E i \in DOMAIN runs : RunCloseSuccess(i)
    \/ \E i \in DOMAIN runs : RunCloseError(i)

SpecRunLoadAlone == InitRunLoad /\ [][NextRunLoad]_vars

\* The same, with the interleavings of the workers inside log_execution_start
NextRunLoadSharedConn ==
    \/ NextRunLoad
    \/ \E i \in DOMAIN runs : RunInsert(i)
    \/ \E i \in DOMAIN runs : RunLastRowId(i)

SpecRunLoad == InitRunLoad /\ [][NextRunLoadSharedConn]_vars

\* sanitize_df_for_sql called on its own
SpecSanitize == InitEnsure /\ [][\E x, y \in Cells : Sanitize(x, y)]_vars

\* The Step Executor alone: the user runs, one after the other, tasks whose
\* steps go wrong
InitSteps ==
    /\ clock = 3600
    /\ tasks = [id \in DOMAIN StepLists |->
                   ScheduledTask(id, id, ExprInvalid, FALSE, StepLists[id])]
    /\ connections = (1 :> [type |-> "sqlserver"]) @@ (2 :> [type |-> "csv"])
    /\ history = <<>>
    /\ running = TRUE
    /\ next_runs = <<>>
    /\ sched = [pc |-> "test"]
    /\ runs = <<>>
    /\ ui = [pc |-> "events", ops |-> 0]
    /\ cyc = [n |-> 0, now |-> 0, tasks |-> <<>>, nr0 |-> <<>>,
              triggered |-> <<>>, raised |-> None]
    /\ sink = EmptyDatabase
    /\ loads = <<>>

NextSteps ==
    \/ Engine
    \/ \E id \in DOMAIN tasks : on_run_clicked(id)

SpecSteps == InitSteps /\ [][NextSteps]_vars

----------------------------------------------------------------------------
(* ui/task_editor.py, ui/step_editor.py *)

\* The kinds of step the step editor's combo offers
StepTypes == {"extract", "load", "transform"}

\* StepEditorDialog.build_step(base_order): the step the dialog describes,
\* with the order it is given
build_step(step_type, base_order) ==
    IF step_type = "extract" THEN ExtractStep(base_order)
    ELSE IF step_type = "load" THEN LoadStep(base_order)
    ELSE TransformStep(base_order)

\* A faulty variant of reorder: the steps keep the order values they had
reorder_keeps(steps) == steps

\* for i, step in enumerate(self.steps, start=1): step.order = i
reorder(steps) == [i \in 1..Len(steps) |-> [steps[i] EXCEPT !.order = i]]

\* self.steps.sort(key=lambda s: s.order), then the table is redrawn
_refresh_steps_table(steps) == sorted(steps, StepOrder)

\* self.steps[a], self.steps[b] = self.steps[b], self.steps[a]
swap(steps, a, b) == [steps EXCEPT ![a] = steps[b], ![b] = steps[a]]

\* The task editor is open and one more click is allowed
EditorStep == Alive /\ ui.pc = "editor" /\ ui.ops < MaxEditorOps

Edited(steps) ==
    /\ ui' = [ui EXCEPT !.steps = steps, !.ops = @ + 1]
    /\ UNCHANGED <<clock, tasks, connections, history, running, next_runs, sched,
                   runs, cyc, sink, loads>>

\* on_add_step_clicked, the step dialog accepted
on_add_step_clicked(step_type) ==
    /\ EditorStep
    /\ Len(ui.steps) < MaxSteps
    /\ LET next_order == Len(ui.steps) + 1
           step == build_step(step_type, next_order)
       IN Edited(_refresh_steps_table(Append(ui.steps, step)))

\* on_edit_step_clicked on row idx, the step dialog accepted
on_edit_step_clicked(idx, step_type) ==
    /\ EditorStep
    /\ idx \in DOMAIN ui.steps
    /\ LET current_step == ui.steps[idx]
           new_step == build_step(step_type, current_step.order)
       IN /\ new_step # current_step
          /\ Edited(_refresh_steps_table([ui.steps EXCEPT ![idx] = new_step]))

\* on_delete_step_clicked on row idx
on_delete_step_clicked(idx) ==
    /\ EditorStep
    /\ idx \in DOMAIN ui.steps
    /\ LET kept == [k \in 1..(Len(ui.steps) - 1) |->
                       IF k < idx THEN ui.steps[k] ELSE ui.steps[k + 1]]
       IN Edited(_refresh_steps_table(reorder(kept)))

\* on_up_step_clicked on row idx: nothing on the first row
on_up_step_clicked(idx) ==
    /\ EditorStep
    /\ idx \in DOMAIN ui.steps
    /\ idx > 1
    /\ Edited(_refresh_steps_table(reorder(swap(ui.steps, idx - 1, idx))))

\* on_down_step_clicked on row idx: nothing on the last row
on_down_step_clicked(idx) ==
    /\ EditorStep
    /\ idx \in DOMAIN ui.steps
    /\ idx < Len(ui.steps)
    /\ Edited(_refresh_steps_table(reorder(swap(ui.steps, idx + 1, idx))))

\* The editor is accepted: build_task sorts the steps, on_edit_clicked saves
\* the task; ui.steps stays as the list the editor returned
EditorAccepted ==
    /\ Alive
    /\ ui.pc = "editor"
    /\ LET steps == sorted(ui.steps, StepOrder)
       IN /\ tasks' = save_task(tasks, [tasks[ui.task_id] EXCEPT !.steps = steps])
          /\ ui' = [ui EXCEPT !.pc = "events", !.steps = steps]
    /\ UNCHANGED <<clock, connections, history, running, next_runs, sched, runs,
                   cyc, sink, loads>>

\* The task editor has just been opened on one of the stored tasks: its list
\* is a copy of the task's steps
InitEditor ==
    /\ clock = 3600
    /\ tasks = [id \in TaskIds |->
                   ScheduledTask(id, id, ExprInvalid, FALSE, StepsOf(id))]
    /\ connections = (1 :> [type |-> "sqlserver"]) @@ (2 :> [type |-> "csv"])
    /\ history = <<>>
    /\ running = TRUE
    /\ next_runs = <<>>
    /\ sched = [pc |-> "test"]
    /\ runs = <<>>
    /\ \E id \in TaskIds :
          ui = [pc |-> "editor", ops |-> 0, task_id |-> id,
                steps |-> tasks[id].steps]
    /\ cyc = [n |-> 0, now |-> 0, tasks |-> <<>>, nr0 |-> <<>>,
              triggered |-> <<>>, raised |-> None]
    /\ sink = EmptyDatabase
    /\ loads = <<>>

\* The user works in the task editor, accepts it, and runs the task
NextEditor ==
    \/ \E step_type \in StepTypes : on_add_step_clicked(step_type)
    \/ \E idx \in 1..MaxSteps, step_type \in StepTypes :
            on_edit_step_clicked(idx, step_type)
    \/ \E idx \in 1..MaxSteps : on_delete_step_clicked(idx)
    \/ \E idx \in 1..MaxSteps : on_up_step_clicked(idx)
    \/ \E idx \in 1..MaxSteps : on_down_step_clicked(idx)
    \/ EditorAccepted
    \/ on_run_clicked(ui.task_id)
    \/ Engine

SpecEditor == InitEditor /\ [][NextEditor]_vars

\* The system when list_enabled_tasks() or worker.start() may raise in a polling
\* cycle, until the application is closed
NextCycleFail ==
    \/ Engine
    \/ Scheduler
    \/ stop
    \/ exit
    \/ SchedCycle(TRUE, 0)
    \/ \E k \in TaskIds : SchedCycle(FALSE, k)

SpecCycleFail == Init /\ [][NextCycleFail]_vars

\* The same, with a scheduler thread that is not starved: time.sleep() returns
\* and the loop test is then evaluated
FairCycleFail ==
    /\ SpecCycleFail
    /\ WF_vars(SchedSleep)
    /\ WF_vars(SchedLoopTest)

----------------------------------------------------------------------------
(* The Task Runner's contract *)

AllStepsCompleted(r) ==
    /\ Len(r.trace) = Len(r.steps)
    /\ \A p \in DOMAIN r.trace : r.trace[p].ok

\* C1: every invocation of run_task, whatever its outcome (also when a call to
\* the store fails), calls log_execution_start exactly once and calls
\* log_execution_end exactly once for the history id it was given: never more
\* than once while it runs, and exactly once when it has returned or raised.
C1_OneOpenOneClose ==
    \A i \in DOMAIN runs :
        /\ runs[i].starts <= 1
        /\ runs[i].ends <= 1
        /\ (runs[i].pc \in Finished /\ runs[i].history_id # NoId)
               => (runs[i].starts = 1 /\ runs[i].ends = 1)

\* C2: once run_task has returned or raised, the run has produced exactly one
\* history record (its own: no other run holds its id, and the history has one
\* row per run that opened one); the record's status is "success" with no
\* message if every step completed and "error" otherwise, never "running".
C2_OneTerminalRecord ==
    /\ Len(history) = Cardinality({i \in DOMAIN runs : runs[i].starts > 0})
    /\ \A i \in DOMAIN runs :
          runs[i].pc \in Finished =>
              /\ runs[i].starts = 1
              /\ runs[i].history_id \in DOMAIN history
              /\ \A j \in DOMAIN runs :
                     runs[j].history_id = runs[i].history_id => j = i
              /\ LET rec == history[runs[i].history_id] IN
                 /\ rec.task_id = runs[i].task_id
                 /\ rec.status # "running"
                 /\ rec.finished_at # None
                 /\ IF AllStepsCompleted(runs[i])
                    THEN rec.status = "success" /\ rec.message = None
                         /\ runs[i].pc = "returned"
                    ELSE rec.status = "error" /\ runs[i].pc = "raised"

\* Reached: one run has returned with a "success" record and another has raised
\* with an "error" record.
C2_Witness ==
    \E i, j \in DOMAIN runs :
        /\ runs[i].pc = "returned" /\ history[runs[i].history_id].status = "success"
        /\ runs[j].pc = "raised" /\ history[runs[j].history_id].status = "error"

\* C3: when a step of a run fails, it is the last step the run executes; the run
\* does not return: it raises that same failure, and by then the history record
\* is closed with status "error" and the failure's description as its message.
\* In particular a failing extract of [extract, load] is followed by no load.
C3_FailureStopsRun ==
    \A i \in DOMAIN runs : \A p \in DOMAIN runs[i].trace :
        ~runs[i].trace[p].ok =>
            /\ p = Len(runs[i].trace)
            /\ runs[i].pc \in {"except", "raised"}
            /\ runs[i].exc = runs[i].trace[p].exc
            /\ runs[i].pc = "raised" =>
                   /\ history[runs[i].history_id].status = "error"
                   /\ history[runs[i].history_id].message = runs[i].trace[p].exc

\* Reached: a run of [extract, load] whose extract failed has raised, its record
\* is closed, and no load was executed.
C3_Witness ==
    \E i \in DOMAIN runs :
        /\ runs[i].pc = "raised"
        /\ Len(runs[i].steps) = 2
        /\ runs[i].steps[2].step_type = "load"
        /\ Len(runs[i].trace) = 1
        /\ runs[i].trace[1].step_type = "extract"
        /\ ~runs[i].trace[1].ok
        /\ history[runs[i].history_id].message = "pyodbc.Error"

\* C4: the steps a run has executed are, in this order, the first steps of its
\* task by ascending order field; the first receives no input, each next one
\* receives what the one before it returned, and a load step returns the value
\* it received.
C4_StepsChained ==
    \A i \in DOMAIN runs :
        LET tr == runs[i].trace
            plan == sorted(runs[i].steps, StepOrder)
        IN
        /\ Len(tr) <= Len(plan)
        /\ \A p \in DOMAIN tr :
              /\ tr[p].order = plan[p].order
              /\ tr[p].step_type = plan[p].step_type
              /\ p > 1 => tr[p - 1].order <= tr[p].order
              /\ tr[p].input = IF p = 1 THEN NoData ELSE tr[p - 1].output
              /\ (tr[p].step_type = "load" /\ tr[p].ok) => tr[p].output = tr[p].input

\* Reached: a run has executed extract, load and transform, and the transform
\* received the value of the extract through the load.
C4_Witness ==
    \E i \in DOMAIN runs :
        /\ Len(runs[i].trace) = 3
        /\ runs[i].trace[2].step_type = "load"
        /\ runs[i].trace[3].step_type = "transform"
        /\ runs[i].trace[3].ok
        /\ runs[i].trace[3].input = runs[i].trace[1].output
        /\ runs[i].trace[1].output # NoData

----------------------------------------------------------------------------
(* The Scheduler's contract *)

Valid(task, now) == next_run_from_cron(task.recurrence, now).ok

\* The runs the scheduler started for task id in its last polling cycle
Triggers(id) == {k \in DOMAIN cyc.triggered : cyc.triggered[k] = id}

InFlight(id) ==
    {i \in DOMAIN runs : runs[i].task_id = id /\ runs[i].pc \notin Finished}

\* C5: one bad task never stops the scheduling of the other tasks: after a
\* polling cycle that fetched the enabled tasks, every fetched task whose
\* expression is valid has a next-due time, also when another fetched task made
\* the cycle fail.
C5_BadTaskIsolated ==
    cyc.n >= 1 =>
        \A k \in DOMAIN cyc.tasks :
            Valid(cyc.tasks[k], cyc.now) => cyc.tasks[k].id \in DOMAIN next_runs

\* C6: an exception raised in a polling cycle (by list_enabled_tasks, by
\* next_run_from_cron or by worker.start) does not end the scheduler loop: the
\* loop leaves a cycle only for its sleep, leaves the sleep only after the
\* polling interval for its loop test, leaves the loop test for a new cycle
\* unless stop was signalled, and is never anywhere else; after a cycle that
\* raised, a new cycle is started unless stop is signalled or the process ends.
C6_LoopSurvivesException ==
    /\ [](sched.pc \in {"test", "check", "sleep", "exited"})
    /\ [](sched.pc = "exited" => ~running)
    /\ [][/\ (sched.pc = "check" /\ sched' # sched) => sched'.pc = "sleep"
          /\ (sched.pc = "sleep" /\ sched' # sched) =>
                 /\ sched'.pc = "test"
                 /\ clock' >= clock + check_interval_seconds
          /\ (sched.pc = "test" /\ running /\ sched' # sched) =>
                 sched'.pc = "check"]_vars
    /\ (cyc.raised # None /\ sched.pc = "sleep" /\ cyc.n < MaxCycles)
           ~> (sched.pc = "check" \/ ~running \/ ~Alive)

\* Reached: a new polling cycle is being started after one in which
\* worker.start raised.
C6_Witness ==
    /\ sched.pc = "check"
    /\ cyc.raised = "RuntimeError"
    /\ running

\* C7: a task is never run in the polling cycle that first observes it: every
\* run started in a cycle is of a task that had a next-due time when the cycle
\* began.
C7_FirstObservationOnlySeeds ==
    /\ \A k \in DOMAIN cyc.triggered : cyc.triggered[k] \in DOMAIN cyc.nr0
    /\ \A i \in DOMAIN runs :
           (runs[i].origin = "scheduler" /\ runs[i].cycle = cyc.n) =>
               runs[i].task_id \in DOMAIN cyc.nr0

\* Reached: a cycle at 01:00:10 has first observed a task that is due every
\* minute (its trigger time 01:00:00 has passed), recorded 01:01:00 for it and
\* started no run.
C7_Witness ==
    /\ cyc.n = 1
    /\ cyc.now = 3610
    /\ \E k \in DOMAIN cyc.tasks :
          /\ cyc.tasks[k].recurrence = ExprEveryMinute
          /\ cyc.tasks[k].id \notin DOMAIN cyc.nr0
          /\ cyc.tasks[k].id \in DOMAIN next_runs
          /\ next_runs[cyc.tasks[k].id] = 3660
          /\ Triggers(cyc.tasks[k].id) = {}
    /\ runs = <<>>

\* C8: in a polling cycle a tracked task is triggered if and only if its
\* next-due time is <= the cycle's now; when it is triggered, exactly one run is
\* started for it and its next-due time becomes
\* next_run_from_cron(recurrence, now), which is later than now.
C8_TriggeredIffDue ==
    \A k \in DOMAIN cyc.tasks :
        LET task == cyc.tasks[k]
            planned == next_run_from_cron(task.recurrence, cyc.now)
        IN
        task.id \in DOMAIN cyc.nr0 =>
            /\ (cyc.nr0[task.id] <= cyc.now) <=> (Triggers(task.id) # {})
            /\ Triggers(task.id) # {} =>
                   /\ Cardinality(Triggers(task.id)) = 1
                   /\ planned.ok
                   /\ next_runs[task.id] = planned.time
                   /\ next_runs[task.id] > cyc.now

\* C9: the scheduler loop never waits for a run it triggered: while such a run
\* has not finished (and the process lives), the scheduler's thread is free to
\* take the loop's next step: it is not inside any run_task.
C9_LoopNeverWaits ==
    (\E i \in DOMAIN runs :
         runs[i].origin = "scheduler" /\ runs[i].pc \notin Finished) =>
        /\ Alive => SchedulerStep
        /\ \A i \in DOMAIN runs : runs[i].thread # "scheduler"

\* Reached: a run the scheduler triggered for one task has not left its first
\* statement, and a later polling cycle has triggered another task.
C9_Witness ==
    \E i, j \in DOMAIN runs :
        /\ runs[i].origin = "scheduler" /\ runs[j].origin = "scheduler"
        /\ runs[i].pc = "start"
        /\ runs[i].cycle < runs[j].cycle
        /\ runs[i].task_id # runs[j].task_id

\* C10: there is no per-task in-flight guard: in a polling cycle that completes,
\* a tracked task that is due is given a new run also when a run of that task
\* (triggered or manual) is still executing.
C10_NoInFlightGuard ==
    [][(cyc'.n = cyc.n + 1 /\ cyc'.raised = None) =>
          \A k \in DOMAIN cyc'.tasks :
              LET id == cyc'.tasks[k].id IN
              (/\ id \in DOMAIN next_runs
               /\ next_runs[id] <= clock
               /\ InFlight(id) # {}) =>
                  \E j \in DOMAIN runs' :
                      /\ j \notin DOMAIN runs
                      /\ runs'[j].task_id = id
                      /\ runs'[j].pc \notin Finished]_vars

\* Reached: two runs of the same task, triggered by two polling cycles, are
\* executing at the same time.
C10_Witness ==
    \E i, j \in DOMAIN runs :
        /\ i # j
        /\ runs[i].task_id = runs[j].task_id
        /\ runs[i].origin = "scheduler" /\ runs[j].origin = "scheduler"
        /\ runs[i].cycle < runs[j].cycle
        /\ runs[i].pc \notin Finished /\ runs[j].pc \notin Finished
        /\ runs[i].pc = "steps" /\ runs[j].pc = "steps"

----------------------------------------------------------------------------
(* Stopping the scheduler *)

\* C11: once Scheduler.stop() has been called, the scheduler starts no further
\* Task Runner invocation: no step taken after the stop signal adds a run of
\* scheduler origin.
C11_NoTriggerAfterStop ==
    [][~running =>
          \A j \in DOMAIN runs' :
              j \notin DOMAIN runs => runs'[j].origin # "scheduler"]_vars

\* C12: after stop() the loop exits within one polling interval: the stop
\* signal is never withdrawn, no polling cycle begins after it (the loop test
\* then only leads out of the loop), at most the cycle in progress and one sleep
\* are completed, an exited loop takes no further step, and a loop that is
\* sleeping or at its test when stopped does exit unless the process ends first.
C12_LoopExitsAfterStop ==
    /\ [][~running => ~running']_vars
    /\ [][(~running /\ sched.pc = "test" /\ sched' # sched) =>
              sched'.pc = "exited"]_vars
    /\ [][(~running /\ sched.pc \in {"test", "exited"}) =>
              (clock' = clock /\ cyc' = cyc /\ next_runs' = next_runs)]_vars
    /\ [][sched.pc = "exited" => sched' = sched]_vars
    /\ (~running /\ sched.pc \in {"sleep", "test"} /\ cyc.n < MaxCycles)
           ~> (sched.pc = "exited" \/ ~Alive)

\* Reached: stop() was called after two polling cycles, the loop has exited and
\* the process has not ended yet.
C12_Witness ==
    /\ sched.pc = "exited"
    /\ ~running
    /\ ui.pc = "stopped"
    /\ cyc.n = 2

\* C13: stopping does not abort an in-flight triggered run, also at application
\* shutdown: when the process has ended, every run the scheduler triggered has
\* executed its steps and closed its history record with a terminal status.
C13_ShutdownKeepsRuns ==
    ~Alive =>
        \A i \in DOMAIN runs :
            runs[i].origin = "scheduler" =>
                /\ runs[i].pc \in Finished
                /\ runs[i].history_id \in DOMAIN history
                /\ history[runs[i].history_id].status \in {"success", "error"}

----------------------------------------------------------------------------
(* The history store under concurrent runs *)

\* C14: each run owns its history record: two runs never hold the same history
\* id, the record a run holds is the one opened for its task, and it shows that
\* run's state: "running" until the run closes it, then the run's own outcome
\* (no other run's closing write has changed it).
C14_OwnRecord ==
    \A i \in DOMAIN runs :
        runs[i].history_id # NoId =>
            /\ \A j \in DOMAIN runs :
                   runs[j].history_id = runs[i].history_id => j = i
            /\ runs[i].history_id \in DOMAIN history
            /\ LET rec == history[runs[i].history_id] IN
               /\ rec.task_id = runs[i].task_id
               /\ runs[i].pc \notin Finished => rec.status = "running"
               /\ runs[i].pc = "returned" => rec.status = "success"
               /\ runs[i].pc = "raised" =>
                      (rec.status = "error" /\ rec.message = runs[i].exc)

----------------------------------------------------------------------------
(* The Recurrence Calculator's contract *)

\* The calls of next_run_from_cron a state shows: the one the scheduler would
\* make now for the stored task, and the one whose result its last polling
\* cycle recorded
CronCalls ==
    {[expr |-> tasks[1].recurrence, now |-> clock,
      result |-> next_run_from_cron(tasks[1].recurrence, clock)]}
    \cup
    (IF cyc.n >= 1 /\ (1 \notin DOMAIN cyc.nr0 \/ Triggers(1) # {})
     THEN {[expr |-> cyc.tasks[1].recurrence, now |-> cyc.now,
            result |-> IF cyc.raised = None THEN Returned(next_runs[1])
                       ELSE Raised(cyc.raised)]}
     ELSE {})

FieldsOf(expr) == split(expr)

\* The minute field is */N for a decimal number N >= 1
EveryN(minute) ==
    /\ Len(minute) >= 3
    /\ minute[1] = "*" /\ minute[2] = "/"
    /\ isdigit(SubSeq(minute, 3, Len(minute)))
    /\ DecimalValue(SubSeq(minute, 3, Len(minute))) >= 1

IntervalOf(minute) == DecimalValue(SubSeq(minute, 3, Len(minute)))

\* The minute field is a decimal number 0..59
LiteralMinute(minute) == isdigit(minute) /\ DecimalValue(minute) < MinutesPerHour

\* C15: for every five-field expression whose minute field is */N (N >= 1) and
\* every now, next_run_from_cron returns a time strictly after now whose
\* minute-of-hour is a multiple of N and whose seconds are zero.
C15_EveryNIsLaterMultiple ==
    \A c \in CronCalls :
        (Len(FieldsOf(c.expr)) = 5 /\ EveryN(FieldsOf(c.expr)[1])) =>
            /\ c.result.ok
            /\ c.result.time > c.now
            /\ minute_of(c.result.time) % IntervalOf(FieldsOf(c.expr)[1]) = 0
            /\ c.result.time % SecondsPerMinute = 0

\* Reached: the scheduler has recorded 10:15:00 for "*/15 * * * *" at 10:07:30.
C15_Witness ==
    /\ cyc.n = 1
    /\ cyc.now = 36450
    /\ cyc.tasks[1].recurrence = <<"*", "/", "1", "5">> \o OtherFields
    /\ next_runs = (1 :> 36900)

\* C16: for a */N minute field the result is the earliest boundary: no minute
\* boundary strictly after now and before the result has a minute-of-hour that
\* is a multiple of N, also across an hour or a day.
C16_EveryNIsEarliest ==
    \A c \in CronCalls :
        (Len(FieldsOf(c.expr)) = 5 /\ EveryN(FieldsOf(c.expr)[1])) =>
            /\ c.result.ok
            /\ \A k \in 1..(MinutesPerHour + 1) :
                   LET boundary == floor_minute(c.now) + k * SecondsPerMinute IN
                   (boundary > c.now /\ boundary < c.result.time) =>
                       minute_of(boundary) % IntervalOf(FieldsOf(c.expr)[1]) # 0
            /\ c.result.time - c.now <= (MinutesPerHour + 1) * SecondsPerMinute

\* Reached: the scheduler has recorded 00:00:00 of the next day for
\* "*/7 * * * *" at 23:58:00 (23:59 is not a multiple of 7).
C16_Witness ==
    /\ cyc.n = 1
    /\ cyc.now = 86280
    /\ cyc.tasks[1].recurrence = <<"*", "/", "7">> \o OtherFields
    /\ next_runs = (1 :> 86400)

\* C17: for every literal minute field M in 0..59 and every now, the result is
\* never now (it is later) and lies within the next 60 minutes.
C17_LiteralWithinTheHour ==
    \A c \in CronCalls :
        (Len(FieldsOf(c.expr)) = 5 /\ LiteralMinute(FieldsOf(c.expr)[1])) =>
            /\ c.result.ok
            /\ c.result.time # c.now
            /\ c.result.time > c.now
            /\ c.result.time - c.now <= MinutesPerHour * SecondsPerMinute

\* Reached: the scheduler has recorded 11:07:00 for "07 * * * *" at 10:07:00.
C17_Witness ==
    /\ cyc.n = 1
    /\ cyc.now = 36420
    /\ cyc.tasks[1].recurrence = <<"0", "7">> \o OtherFields
    /\ next_runs = (1 :> 40020)

\* C18: next_run_from_cron fails, and returns no time, for every expression that
\* has not exactly five fields and for every minute field that is neither */N
\* (N >= 1), nor *, nor a literal 0..59.
C18_OtherFormsFail ==
    \A c \in CronCalls :
        ~(/\ Len(FieldsOf(c.expr)) = 5
          /\ \/ EveryN(FieldsOf(c.expr)[1])
             \/ FieldsOf(c.expr)[1] = <<"*">>
             \/ LiteralMinute(FieldsOf(c.expr)[1]))
            => ~c.result.ok

----------------------------------------------------------------------------
(* The Schema Reconciler *)

\* The destination a call is about
DestinationOf(i) == _split_table_name(loads[i].target_table)

\* The destination was absent when call i was made
AbsentAtCall(i) == DestinationOf(i) \notin DOMAIN loads[i].tables0

\* The tables of the target as call i has left them: calls follow one another,
\* so these are the tables the next call found, or those of now
TablesAfter(i) == IF i < Len(loads) THEN loads[i + 1].tables0 ELSE sink.tables

\* Within a call against an existing destination nothing is created and no
\* table changes
ExistingIsNoOp ==
    \A i \in DOMAIN loads :
        ~AbsentAtCall(i) =>
            /\ loads[i].creates = 0
            /\ TablesAfter(i) = loads[i].tables0
            /\ loads[i].pc \in {"table_exists", "returned", "raised"}
            /\ loads[i].pc = "raised" => loads[i].exc = "pyodbc.Error"

\* C19: ensure_table_exists is idempotent. A call against an existing
\* destination issues no create and changes no table. Of two successive calls
\* against the same initially absent destination, the first one, when it
\* returns, has issued exactly one create and the second issues none: one
\* create between them. (A call that raises has created nothing and leaves the
\* destination as it found it.)
C19_Idempotent ==
    /\ ExistingIsNoOp
    /\ \A i \in DOMAIN loads :
        /\ (AbsentAtCall(i) /\ loads[i].pc = "returned") =>
                /\ loads[i].creates = 1
                /\ DestinationOf(i) \in DOMAIN sink.tables
                /\ \A j \in DOMAIN loads :
                        (i < j /\ DestinationOf(j) = DestinationOf(i)) =>
                            loads[j].creates = 0
        /\ (AbsentAtCall(i) /\ loads[i].pc = "raised") =>
                /\ loads[i].creates <= 1
                /\ TablesAfter(i) = loads[i].tables0

\* Two calls have returned: one that created the destination written "t",
\* then one against the same destination written "dbo.t"
C19_Witness ==
    /\ Len(loads) = 2
    /\ loads[1].target_table = <<"t">> /\ loads[1].pc = "returned"
    /\ AbsentAtCall(1) /\ loads[1].creates = 1
    /\ loads[2].target_table = <<"d", "b", "o", ".", "t">> /\ loads[2].pc = "returned"
    /\ loads[2].creates = 0
    /\ TablesAfter(2) = loads[2].tables0

\* The try block of _generate_create_table_sql raised in call i
SourceRaised(i) ==
    LET f == loads[i]
        name == DestinationOf(i)
    IN  /\ f.src.kind # "none"
        /\ _generate_from_source(f.df, name[1], name[2], f.src).kind = "raise"

\* C20: an error raised while the column plan is derived from the source
\* metadata never ends the call: the plan is the one derived from the dtypes
\* of the value, and the call goes on to issue the create, which is on the
\* target's log once the call has returned.
C20_SourceErrorFallsBack ==
    \A i \in DOMAIN loads :
        SourceRaised(i) =>
            LET f == loads[i]
                name == DestinationOf(i)
            IN  /\ f.create_sql = _generate_fallback(f.df, name[1], name[2])
                /\ f.pc \in {"create", "returned", "raised"}
                /\ f.pc = "raised" => (f.exc \in {"pyodbc.Error", "ProgrammingError"}
                                       /\ f.creates <= 1)
                /\ f.pc = "returned" =>
                        /\ f.creates = 1
                        /\ \E k \in DOMAIN sink.log : sink.log[k] = f.create_sql
                        /\ name \in DOMAIN sink.tables
                        /\ sink.tables[name].columns = f.create_sql.columns

\* Malformed metadata (a decimal column whose precision is NaN) made the plan
\* fall back to the dtypes, and the destination was created with it
C20_Witness ==
    \E i \in DOMAIN loads :
        /\ SourceRaised(i)
        /\ loads[i].src.kind = "rows"
        /\ loads[i].df.columns[1].name = "amount"
        /\ loads[i].pc = "returned"
        /\ DestinationOf(i) \in DOMAIN sink.tables
        /\ sink.tables[DestinationOf(i)].columns[1] = [name |-> "amount", sql |-> "FLOAT"]

----------------------------------------------------------------------------
(* The Loader *)

\* self.config.get("create_table", True) of call i
AutoCreate(i) == dict_get(loads[i].config, "create_table", TRUE)

\* Call i got as far as the branch on auto_create
Configured(i) ==
    loads[i].fn = "load" /\ loads[i].df0 # NoData /\ "table" \in DOMAIN loads[i].config

\* The positions of the statements s in the statements call i has sent
Sent(i, s) == {k \in DOMAIN loads[i].ops : loads[i].ops[k] = s}

\* C21: a load with auto-create off whose destination does not exist fails
\* and sends no create, delete or insert to the target; a load with
\* auto-create on, which is the default when the flag is not configured,
\* runs the Schema Reconciler (the existence check, then the create of an
\* absent destination) before any delete or insert.
C21_AutoCreateGate ==
    \A i \in DOMAIN loads :
        Configured(i) =>
            /\ (~AutoCreate(i) /\ AbsentAtCall(i)) =>
                    /\ loads[i].pc \in {"check_exists", "raised"}
                    /\ loads[i].creates = 0
                    /\ Sent(i, "create") \cup Sent(i, "delete") \cup Sent(i, "insert") = {}
                    /\ TablesAfter(i) = loads[i].tables0
            /\ AutoCreate(i) =>
                    /\ \A k \in Sent(i, "delete") \cup Sent(i, "insert") :
                            /\ k > 1 /\ loads[i].ops[1] = "table_exists"
                            /\ AbsentAtCall(i) =>
                                    \E c \in Sent(i, "create") : c < k
                    /\ loads[i].pc \in {"delete", "insert", "returned"} =>
                            Sent(i, "table_exists") # {}

\* A load with auto-create off has failed on the absent destination, and a
\* load with the flag left out has created it and inserted into it
C21_Witness ==
    /\ Len(loads) = 2
    /\ ~AutoCreate(1) /\ AbsentAtCall(1)
    /\ loads[1].pc = "raised" /\ loads[1].exc = "RuntimeError"
    /\ "create_table" \notin DOMAIN loads[2].config
    /\ loads[2].ops = <<"table_exists", "create", "insert">>
    /\ loads[2].pc = "returned"

\* load() of call i has returned
Loaded(i) == loads[i].fn = "load" /\ loads[i].pc = "returned"

\* The rows the destination of call i held when the call was made
RowsBefore(i) ==
    IF AbsentAtCall(i) THEN <<>> ELSE loads[i].tables0[DestinationOf(i)].rows

\* C22: with no other writer, a replace-mode load that succeeds leaves in the
\* destination exactly the rows of the loaded value (as sanitized, one per
\* row of the value, the earlier rows gone), an append-mode load that succeeds
\* leaves the earlier rows followed by the value's rows, and a destination that
\* existed is not created again and keeps its columns.
C22_ReplaceAndAppend ==
    \A i \in DOMAIN loads :
        Loaded(i) =>
            LET after == TablesAfter(i)
                dest == DestinationOf(i)
                value == sanitize_df_for_sql(loads[i].df0).rows
            IN  /\ dest \in DOMAIN after
                /\ Len(value) = Len(loads[i].df0.rows)
                /\ loads[i].mode = "replace" => after[dest].rows = value
                /\ loads[i].mode = "append" => after[dest].rows = RowsBefore(i) \o value
                /\ ~AbsentAtCall(i) =>
                        /\ loads[i].creates = 0
                        /\ after[dest].columns = loads[i].tables0[dest].columns
                /\ \A other \in DOMAIN loads[i].tables0 :
                        other # dest => after[other] = loads[i].tables0[other]

\* A replace-mode load has replaced the row of the existing destination, and
\* an append-mode load has then added its rows to those
C22_Witness ==
    /\ Len(loads) = 2
    /\ Loaded(1) /\ loads[1].mode = "replace" /\ ~AbsentAtCall(1)
    /\ Len(RowsBefore(1)) = 1
    /\ Loaded(2) /\ loads[2].mode = "append" /\ DestinationOf(2) = DestinationOf(1)
    /\ Len(sink.tables[DestinationOf(2)].rows) = 4

----------------------------------------------------------------------------
(* Loads that overlap *)

\* Calls i and j are loads with auto-create on, made for one destination that
\* was absent for both
BothFoundAbsent(i, j) ==
    /\ i < j
    /\ Configured(i) /\ Configured(j)
    /\ AutoCreate(i) /\ AutoCreate(j)
    /\ DestinationOf(i) = DestinationOf(j)
    /\ AbsentAtCall(i) /\ AbsentAtCall(j)

\* The create of call i was refused
CreateRefused(i) ==
    /\ loads[i].pc = "raised"
    /\ Len(loads[i].ops) > 0
    /\ loads[i].ops[Len(loads[i].ops)] = "create"

\* C29: of two loads with auto-create on that overlap on one absent
\* destination, at most one sends a create for it, and neither fails on the
\* destination the other has created.
C29_OneCreateWhenOverlapping ==
    \A i, j \in DOMAIN loads :
        BothFoundAbsent(i, j) =>
            /\ loads[i].creates + loads[j].creates <= 1
            /\ ~CreateRefused(i) /\ ~CreateRefused(j)

\* The rows of the value call i loads, as sent to the target
ValueRows(i) == sanitize_df_for_sql(loads[i].df0).rows

\* C30: when two replace-mode loads of one destination have both succeeded
\* (and nothing else was loaded), the destination holds exactly the rows of
\* one of the two values: never the rows of both, never a row twice.
C30_ReplaceLeavesOneValue ==
    \A i, j \in DOMAIN loads :
        (/\ i < j
         /\ Len(loads) = 2
         /\ Loaded(i) /\ Loaded(j)
         /\ loads[i].mode = "replace" /\ loads[j].mode = "replace"
         /\ DestinationOf(i) = DestinationOf(j))
        => sink.tables[DestinationOf(i)].rows \in {ValueRows(i), ValueRows(j)}

----------------------------------------------------------------------------
(* No retry *)

\* Run i has failed: it is in its except clause or has re-raised
Failed(i) == runs[i].pc \in {"except", "raised"}

\* C24: there is no automatic retry. A run opens its history record once and
\* never starts over; the step in which a run fails, and the one in which its
\* failure is recorded, start no run and leave every next-due time as it was; a
\* run is only ever started by the user (a manual call) or by a polling cycle
\* for a task whose next-due time has come; and a next-due time is only ever
\* set by a polling cycle, to next_run_from_cron(recurrence, now).
C24_NoRetry ==
    [][/\ \A i \in DOMAIN runs' : runs'[i].starts <= 1
       /\ \A i \in DOMAIN runs :
            (runs'[i].pc # runs[i].pc /\ runs'[i].pc \in {"except", "raised"}) =>
                /\ Len(runs') = Len(runs)
                /\ next_runs' = next_runs
       /\ \A j \in DOMAIN runs' :
            j \notin DOMAIN runs =>
                \/ /\ runs'[j].origin = "manual"
                   /\ ui.pc = "events" /\ sched' = sched
                \/ /\ runs'[j].origin = "scheduler"
                   /\ sched.pc = "check"
                   /\ runs'[j].task_id \in DOMAIN next_runs
                   /\ next_runs[runs'[j].task_id] <= clock
       /\ \A id \in DOMAIN next_runs' :
            (id \notin DOMAIN next_runs \/ next_runs'[id] # next_runs[id]) =>
                /\ sched.pc = "check"
                /\ next_run_from_cron(tasks[id].recurrence, clock).ok
                /\ next_runs'[id] = next_run_from_cron(tasks[id].recurrence, clock).time
      ]_vars

\* A scheduled run has failed and was recorded as error; the task was started
\* once more, by the following polling cycle in which it was due
C24_Witness ==
    \E i, j \in DOMAIN runs :
        /\ i < j
        /\ runs[i].task_id = runs[j].task_id
        /\ runs[i].origin = "scheduler" /\ runs[i].pc = "raised"
        /\ runs[j].origin = "scheduler" /\ runs[j].cycle > runs[i].cycle
        /\ history[runs[i].history_id].status = "error"

----------------------------------------------------------------------------
(* Sanitization *)

\* The cells given to sanitize_df_for_sql and the cells it returned, in pairs
Sanitized ==
    {<<loads[i].df0.rows[r][c], loads[i].df.rows[r][c]>> :
        i \in {k \in DOMAIN loads : loads[k].fn = "sanitize_df_for_sql"},
        r \in {1, 2}, c \in {1}}

\* C25: a missing timestamp becomes 1900-01-01 00:00:00, and not null although
\* it is also a missing value; a timestamp becomes the same second with no
\* sub-second part; every other missing, NaN or None value becomes null, never
\* an empty string; a boxed number becomes the plain number; any other value
\* is returned as it is. The shape of the value is kept.
C25_Sanitization ==
    /\ \A p \in Sanitized :
        LET x == p[1]
            y == p[2]
        IN  /\ x.kind = "NaT" => y = datetime(0, 0)
            /\ x.kind = "Timestamp" =>
                    y.kind = "datetime" /\ y.val = x.val /\ y.microsecond = 0
            /\ (x.kind \in {"nan", "none"} \/ x = np_nan) =>
                    y = PyNone /\ y # Str("")
            /\ x.kind = "np.int64" => y = Num(x.val)
            /\ x.kind \in {"num", "str", "datetime"} => y = x
    /\ \A i \in DOMAIN loads :
        loads[i].fn = "sanitize_df_for_sql" =>
            /\ loads[i].df.columns = loads[i].df0.columns
            /\ Len(loads[i].df.rows) = Len(loads[i].df0.rows)

----------------------------------------------------------------------------
(* Transform steps without input or without a transformer *)

\* The executed steps of the runs: the run, the position in its sorted plan
ExecutedSteps ==
    {<<i, p>> \in (DOMAIN runs) \X (1..3) : p \in DOMAIN runs[i].trace}

StepAt(ip) == runs[ip[1]].queue[ip[2]]
EntryAt(ip) == runs[ip[1]].trace[ip[2]]

\* The step failed with `exc`, whatever the outside world would have answered
FailedWith(ip, exc) ==
    /\ ~EntryAt(ip).ok
    /\ EntryAt(ip).exc = exc
    /\ \A ext \in Outcomes :
          _execute_step(connections, StepAt(ip), EntryAt(ip).input, ext)
              = Fail(exc)
    /\ runs[ip[1]].pc \in {"except", "raised"}
    /\ runs[ip[1]].exc = exc

TransformWithoutInput(ip) ==
    /\ EntryAt(ip).step_type = "transform"
    /\ EntryAt(ip).input = NoData

TransformOfUnknownKind(ip) ==
    /\ EntryAt(ip).step_type = "transform"
    /\ EntryAt(ip).input # NoData
    /\ StepAt(ip).config.type \notin TransformKinds

\* C26: a transform step whose input is absent (it is the first step, or no
\* earlier step produced data) fails with the no-input-data error before any
\* transformer is selected or invoked, whatever its kind; with input present,
\* a transform kind that has no transformer fails with the unsupported-kind
\* error
C26_TransformGuards ==
    \A ip \in ExecutedSteps :
        /\ (EntryAt(ip).step_type = "transform" /\ ip[2] = 1)
              => TransformWithoutInput(ip)
        /\ TransformWithoutInput(ip) => FailedWith(ip, "ValueError: data=None")
        /\ TransformOfUnknownKind(ip) => FailedWith(ip, "NotImplementedError")

\* A transform of an unknown kind has been run first in one run and after an
\* extract in another
C26_Witness ==
    /\ \E ip \in ExecutedSteps :
          /\ TransformWithoutInput(ip)
          /\ StepAt(ip).config.type \notin TransformKinds
    /\ \E ip \in ExecutedSteps : TransformOfUnknownKind(ip)

----------------------------------------------------------------------------
(* Extract and load steps on a connection nobody serves; extracts without query *)

\* The step's connection is stored and of a kind without extractor and loader
OfUnservedKind(ip) ==
    LET c == get_connection_by_id(connections, StepAt(ip).connection_id) IN
    /\ EntryAt(ip).step_type \in {"extract", "load"}
    /\ c.ok
    /\ c.conn.type \notin ConnectionKinds

ExtractWithoutQuery(ip) ==
    LET c == get_connection_by_id(connections, StepAt(ip).connection_id) IN
    /\ EntryAt(ip).step_type = "extract"
    /\ c.ok
    /\ c.conn.type \in ConnectionKinds
    /\ StepAt(ip).config.query \in {None, ""}

\* C27: an extract or load step whose connection kind has no extractor or
\* loader fails with the unsupported-connection-kind error, and an extract step
\* of a supported kind whose query is missing or empty fails with the
\* missing-query error; both fail whatever the data source or sink would have
\* answered, so neither is contacted
C27_ConnectionKindAndQuery ==
    \A ip \in ExecutedSteps :
        /\ OfUnservedKind(ip) => FailedWith(ip, "NotImplementedError")
        /\ ExtractWithoutQuery(ip)
              => FailedWith(ip, "ValueError: 'query' manquante")

\* A load with input on a connection nobody serves has been run in one run, an
\* extract with an empty query in another
C27_Witness ==
    /\ \E ip \in ExecutedSteps :
          /\ OfUnservedKind(ip)
          /\ EntryAt(ip).step_type = "load"
          /\ EntryAt(ip).input # NoData
    /\ \E ip \in ExecutedSteps :
          ExtractWithoutQuery(ip) /\ StepAt(ip).config.query = ""

----------------------------------------------------------------------------
(* The execution history only grows *)

\* The record is the one it was, but for what log_execution_end writes
SameRecord(before, after) ==
    /\ after.task_id = before.task_id
    /\ after.started_at = before.started_at

\* C28: the execution history is append-only: no step of the engine, of the
\* scheduler or of the repository, deleting or re-saving a task included,
\* removes a history record; the number of records never decreases and every
\* record stays at its id
C28_HistoryAppendOnly ==
    [][/\ Len(history') >= Len(history)
       /\ \A id \in DOMAIN history : SameRecord(history[id], history'[id])]_vars

\* A task that has run has been deleted: its history record is still there
C28_Witness ==
    /\ ui.ops > 0
    /\ \E id \in DOMAIN history : history[id].task_id \notin DOMAIN tasks

----------------------------------------------------------------------------
(* A load that fails after the purge of replace mode *)

\* The call's DELETE has been committed: it was sent and not refused
DeleteCommitted(f) ==
    \E p \in DOMAIN f.ops :
        /\ f.ops[p] = "delete"
        /\ \/ p < Len(f.ops)
           \/ f.pc \in {"insert", "returned"}
           \/ f.exc = "pyodbc.Error"

\* load() in replace mode has raised after its DELETE was committed
FailedAfterDelete(k) ==
    /\ loads[k].fn = "load"
    /\ loads[k].mode = "replace"
    /\ loads[k].pc = "raised"
    /\ DeleteCommitted(loads[k])

\* No other call has inserted into the target
OnlyWriter(k) ==
    \A j \in DOMAIN loads \ {k} :
        \A p \in DOMAIN loads[j].ops : loads[j].ops[p] # "insert"

Destination(k) == sink.tables[_split_table_name(loads[k].target_table)]

\* The run that made the call has raised and its history record says so
RecordedAsError(k) ==
    LET r == runs[loads[k].run] IN
    /\ r.pc \in {"load", "except", "raised"}
    /\ r.pc # "load" => r.exc = loads[k].exc
    /\ r.pc = "raised" => history[r.history_id].status = "error"

\* C23: in replace mode the delete is committed before the insert batch starts
\* and is not undone: when the load fails after the delete (the connection or
\* the insert fails), the destination is left empty (nobody else having
\* written to it), the rows it held are not restored, and the run is recorded
\* as error
C23_ReplaceFailureLeavesEmpty ==
    \A k \in DOMAIN loads :
        FailedAfterDelete(k) =>
            /\ OnlyWriter(k) => Destination(k).rows = <<>>
            /\ "run" \in DOMAIN loads[k] => RecordedAsError(k)

\* The part of C23 that is about the target alone
C23_TargetLeftEmpty ==
    \A k \in DOMAIN loads :
        (FailedAfterDelete(k) /\ OnlyWriter(k)) => Destination(k).rows = <<>>

----------------------------------------------------------------------------
(* The Recurrence Calculator: literal minutes and every minute *)

\* The hour now is in, at minute zero
HourOf(now) == now - (now % (MinutesPerHour * SecondsPerMinute))

\* C36: for a literal minute field M (0..59), when now's minute-of-hour is less
\* than M the result is now's hour at minute M, otherwise it is the following
\* hour at minute M, rolling over the day when needed; the seconds of the
\* result are zero in both cases.
C36_LiteralMinute ==
    \A c \in CronCalls :
        (Len(FieldsOf(c.expr)) = 5 /\ LiteralMinute(FieldsOf(c.expr)[1])) =>
            LET M == DecimalValue(FieldsOf(c.expr)[1]) IN
            /\ c.result.ok
            /\ c.result.time % SecondsPerMinute = 0
            /\ c.result.time =
                  IF minute_of(c.now) < M
                  THEN HourOf(c.now) + M * SecondsPerMinute
                  ELSE HourOf(c.now) + (MinutesPerHour + M) * SecondsPerMinute

\* Reached: the scheduler has recorded 10:30:00 for "30 * * * *" at 10:07:30,
\* or 00:05:00 of the next day for "5 * * * *" at 23:59:30
C36_Witness ==
    \/ /\ cyc.n = 1
       /\ cyc.now = 36450
       /\ cyc.tasks[1].recurrence = <<"3", "0">> \o OtherFields
       /\ next_runs = (1 :> 37800)
    \/ /\ cyc.n = 1
       /\ cyc.now = 86370
       /\ cyc.tasks[1].recurrence = <<"5">> \o OtherFields
       /\ next_runs = (1 :> 86700)

\* The minute field is one the calculator supports
SupportedMinute(minute) ==
    EveryN(minute) \/ minute = <<"*">> \/ LiteralMinute(minute)

\* C37: for the minute field * the result is the first minute boundary strictly
\* after now: now plus one minute with the seconds set to zero; and for every
\* supported minute field the four other fields do not influence the result:
\* it is the one obtained with * in their place.
C37_EveryMinute ==
    \A c \in CronCalls :
        Len(FieldsOf(c.expr)) = 5 =>
            /\ FieldsOf(c.expr)[1] = <<"*">> =>
                  /\ c.result.ok
                  /\ c.result.time = (c.now + SecondsPerMinute)
                                      - ((c.now + SecondsPerMinute) % SecondsPerMinute)
                  /\ c.result.time > c.now
                  /\ c.result.time - c.now <= SecondsPerMinute
            /\ SupportedMinute(FieldsOf(c.expr)[1]) =>
                  c.result = next_run_from_cron(FieldsOf(c.expr)[1] \o OtherFields,
                                                c.now)

\* Reached: the scheduler has recorded 10:08:00 for "* 3 1 1 0" at 10:07:30
C37_Witness ==
    /\ cyc.n = 1
    /\ cyc.now = 36450
    /\ cyc.tasks[1].recurrence = <<"*", " ", "3", " ", "1", " ", "1", " ", "0">>
    /\ next_runs = (1 :> 36480)

----------------------------------------------------------------------------
(* The Scheduler and expressions that are invalid *)

\* C31: a task whose stored recurrence expression is invalid at the time of a
\* polling cycle is not triggered in that cycle, also when the expression was
\* valid when the task was first tracked and was edited afterwards.
C31_InvalidNeverTriggered ==
    \A k \in DOMAIN cyc.tasks :
        ~Valid(cyc.tasks[k], cyc.now) => Triggers(cyc.tasks[k].id) = {}

\* C32: the scheduler triggers a task at most once per polling cycle, and after
\* a cycle that completes without error every task evaluated in it has a
\* next-due time strictly later than that cycle's now: trigger times missed
\* between two cycles are not caught up.
C32_OncePerCycle ==
    /\ \A id \in DOMAIN tasks \cup DOMAIN next_runs :
           Cardinality(Triggers(id)) <= 1
    /\ (cyc.n >= 1 /\ cyc.raised = None) =>
           \A k \in DOMAIN cyc.tasks :
               /\ cyc.tasks[k].id \in DOMAIN next_runs
               /\ next_runs[cyc.tasks[k].id] > cyc.now

\* Reached: a cycle has found a task that is due every minute with two trigger
\* times behind it, has triggered it once and planned it for the next minute
C32_Witness ==
    /\ cyc.raised = None
    /\ \E k \in DOMAIN cyc.tasks :
          LET id == cyc.tasks[k].id IN
          /\ cyc.tasks[k].recurrence = ExprEveryMinute
          /\ id \in DOMAIN cyc.nr0
          /\ cyc.now >= cyc.nr0[id] + SecondsPerMinute
          /\ Cardinality(Triggers(id)) = 1
          /\ next_runs[id] = floor_minute(cyc.now) + SecondsPerMinute

----------------------------------------------------------------------------
(* The due-time map when tasks are disabled and enabled again *)

\* The for loop of the last cycle reached its k-th task: no task before it made
\* the cycle fail
Reached(k) == \A j \in 1..(k - 1) : Valid(cyc.tasks[j], cyc.now)

\* A task that had a due time when the cycle began is not seeded again: it is
\* triggered if and only if that time has passed, and keeps it otherwise
NotReseeded ==
    \A k \in DOMAIN cyc.tasks :
        LET id == cyc.tasks[k].id IN
        (id \in DOMAIN cyc.nr0 /\ Reached(k)) =>
            /\ (cyc.nr0[id] <= cyc.now) <=> (Triggers(id) # {})
            /\ cyc.nr0[id] > cyc.now => next_runs[id] = cyc.nr0[id]

\* No step removes an entry of the map, and the entry of a task the cycle does
\* not list (it is disabled or deleted) keeps its time
EntriesKept ==
    \A id \in DOMAIN next_runs :
        /\ id \in DOMAIN next_runs'
        /\ (id \notin DOMAIN tasks \/ ~tasks[id].enabled)
               => next_runs'[id] = next_runs[id]

\* C33: entries of the due-time map are never removed: a task that was tracked,
\* then disabled or deleted, keeps its old next-due time, so when it is enabled again it
\* is not seeded again and is triggered in the first cycle that observes it if
\* its old next-due time has passed.
C33_DueTimesKept ==
    /\ [][EntriesKept]_vars
    /\ []NotReseeded

\* Reached: a task due every minute was seeded at 01:00:10 for 01:01:00, was
\* disabled during the second cycle and enabled again before the third, which
\* has triggered it at 01:02:10 or later on its time of 01:01:00
C33_Witness ==
    /\ ui.ops = 2
    /\ cyc.n = 3
    /\ cyc.now >= 3730
    /\ \E k \in DOMAIN cyc.tasks :
          /\ cyc.tasks[k].recurrence = ExprEveryMinute
          /\ cyc.tasks[k].id \in DOMAIN cyc.nr0
          /\ cyc.nr0[cyc.tasks[k].id] = 3660
          /\ Triggers(cyc.tasks[k].id) # {}

----------------------------------------------------------------------------
(* The column plan of a created destination *)

\* Call i has created its destination
Created(i) ==
    /\ AbsentAtCall(i)
    /\ loads[i].creates = 1
    /\ loads[i].pc \in {"returned", "delete", "insert"}

\* C34: after ensure_table_exists has created a destination for a value, the
\* created destination has a column for every column of that value, so the
\* insert statement built from the value's column list refers only to existing
\* columns.
C34_CreatedHasEveryColumn ==
    \A i \in DOMAIN loads :
        Created(i) =>
            columns_of(loads[i].df) \subseteq
                table_columns(TablesAfter(i)[DestinationOf(i)])

\* The names of a sequence of column definitions or of value columns, in order
NamesOf(cols) == [k \in DOMAIN cols |-> cols[k].name]

\* The rows of the source metadata call i received whose column occurs in the
\* value, in the order of the source
Matching(i) ==
    SelectSeq(loads[i].src.rows,
              LAMBDA row : \E k \in DOMAIN loads[i].df.columns :
                               loads[i].df.columns[k].name = row.COLUMN_NAME)

\* Call i has a column plan
Planned(i) == loads[i].create_sql.op = "create"

\* The plan of call i is derived from the types of the value's own columns
PlanFromValue(i) ==
    LET plan == loads[i].create_sql.columns
        cols == loads[i].df.columns
    IN  /\ NamesOf(plan) = NamesOf(cols)
        /\ \A k \in DOMAIN plan : plan[k].sql = type_mapping(cols[k].dtype)

\* C38: when source metadata is available, the column plan contains only source
\* columns whose names occur in the value, in source-column order: value
\* columns absent from the source metadata are left out of the plan; and when
\* no source column matches, or the source has no metadata, or no source
\* connection is configured, the plan is derived from the value's own column
\* types.
C38_PlanFromSource ==
    \A i \in DOMAIN loads :
        Planned(i) =>
            LET plan == loads[i].create_sql.columns IN
            /\ (loads[i].src.kind = "rows" /\ Len(Matching(i)) > 0
                    /\ ~SourceRaised(i)) =>
                   /\ NamesOf(plan) = [k \in DOMAIN Matching(i) |->
                                           Matching(i)[k].COLUMN_NAME]
                   /\ \A k \in DOMAIN loads[i].df.columns :
                          (\A r \in DOMAIN loads[i].src.rows :
                               loads[i].src.rows[r].COLUMN_NAME
                                   # loads[i].df.columns[k].name)
                          => \A c \in DOMAIN plan :
                                 plan[c].name # loads[i].df.columns[k].name
            /\ (\/ loads[i].src.kind = "none"
                \/ loads[i].src.kind = "rows" /\ Len(loads[i].src.rows) = 0
                \/ loads[i].src.kind = "rows" /\ Len(Matching(i)) = 0) =>
                   PlanFromValue(i)

\* A value with the columns id and name has been planned from a source that
\* has the columns name and code: the destination was created with the column
\* name alone
C38_Witness ==
    \E i \in DOMAIN loads :
        /\ loads[i].pc = "returned"
        /\ Created(i)
        /\ NamesOf(loads[i].df.columns) = <<"id", "name">>
        /\ Len(loads[i].src.rows) = 2
        /\ Len(Matching(i)) = 1
        /\ NamesOf(sink.tables[DestinationOf(i)].columns) = <<"name">>

----------------------------------------------------------------------------
(* A load step without input *)

\* load() was called with no value
WithoutInput(k) == loads[k].fn = "load" /\ loads[k].df0 = NoData

\* The load step that made call k comes first in its run or after loads only
AfterLoadsOnly(k) ==
    LET r == runs[loads[k].run] IN
    \A p \in 1..(r.idx - 1) : r.queue[p].step_type = "load"

\* C35: a load step that receives no input value (it is the first step, or it
\* follows only load steps) fails before any operation is issued against the
\* sink: no existence check, create, delete or insert; and the run is recorded
\* with status "error".
C35_LoadWithoutInput ==
    \A k \in DOMAIN loads :
        /\ ("run" \in DOMAIN loads[k] /\ AfterLoadsOnly(k)) => WithoutInput(k)
        /\ WithoutInput(k) =>
               /\ loads[k].pc = "raised"
               /\ loads[k].exc = "AttributeError"
               /\ loads[k].ops = <<>>
               /\ loads[k].creates = 0
               /\ "run" \in DOMAIN loads[k] => RecordedAsError(k)

\* The part of C35 that is about the sink alone
C35_NothingIssued ==
    \A k \in DOMAIN loads :
        WithoutInput(k) =>
            /\ loads[k].pc = "raised"
            /\ loads[k].ops = <<>>
            /\ loads[k].creates = 0

----------------------------------------------------------------------------
(* The connection of a run *)

\* The entry shows which kind of connection its step resolved: a step that
\* found its connection fails as not implemented exactly when the kind it
\* resolved has no extractor and no loader
ResolvedServedKind(e) == e.exc \notin {"NotImplementedError", "KeyError"}

----------------------------------------------------------------------------
(* The order of the steps *)

DistinctOrders(steps) ==
    \A a, b \in DOMAIN steps : a # b => steps[a].order # steps[b].order

\* C40: after any sequence of add, edit, delete, move-up and move-down in the
\* task editor, starting from steps ordered 1..n, no two steps of the task
\* have the same order value, in the editor and in the store; the Task
\* Runner's sort gives the steps in the sequence the editor returned.
C40_OrdersDistinct ==
    /\ "steps" \in DOMAIN ui => DistinctOrders(ui.steps)
    /\ \A id \in DOMAIN tasks : DistinctOrders(tasks[id].steps)
    /\ \A i \in DOMAIN runs :
          (runs[i].pc # "start" /\ "steps" \in DOMAIN ui)
          => /\ runs[i].queue = ui.steps
             /\ DistinctOrders(runs[i].queue)

\* A run of the task after four clicks in the editor that added a transform
\* step between the extract and the load
C40_Witness ==
    /\ "steps" \in DOMAIN ui
    /\ ui.pc = "events"
    /\ ui.ops = MaxEditorOps
    /\ ui.task_id = 1
    /\ \E i \in DOMAIN runs :
          /\ Len(runs[i].trace) >= 2
          /\ Len(runs[i].queue) = 3
          /\ runs[i].queue[1].step_type = "extract"
          /\ runs[i].queue[2].step_type = "transform"
          /\ runs[i].queue[3].step_type = "load"
====
